---------------------------- MODULE Spec2Model ----------------------------
(***************************************************************************)
(* Control-plane model of the OV5647 image-sensor driver.                  *)
(*                                                                         *)
(* The driver state (struct ov5647) is power_count, current_mode, width,   *)
(* height, the xclk enable count and the reset GPIO value.  Every driver   *)
(* entry point is one action; the register transport (i2c), the clock and  *)
(* the sensor are the environment: a transport operation either completes  *)
(* or returns a negative errno, and a register read delivers a byte the    *)
(* driver does not control.  `log' holds the operations issued by the most *)
(* recent call, in issue order.                                            *)
(***************************************************************************)
EXTENDS Integers, Sequences, FiniteSets, TLC

(***************************************************************************)
(* Register addresses and bit masks.                                       *)
(***************************************************************************)
MIPI_CTRL00_CLOCK_LANE_GATE == 32
MIPI_CTRL00_LINE_SYNC_ENABLE == 16
MIPI_CTRL00_BUS_IDLE == 4
MIPI_CTRL00_CLOCK_LANE_DISABLE == 1

OV5647_SW_STANDBY == 256
OV5647_SW_RESET == 259
OV5647_REG_CHIPID_H == 12298
OV5647_REG_CHIPID_L == 12299
OV5640_REG_PAD_OUT == 12301
OV5647_REG_FRAME_OFF_NUMBER == 16898
OV5647_REG_MIPI_CTRL00 == 18432
OV5647_REG_MIPI_CTRL14 == 18452

OV5647_REG_AEC_AGC == 13571
OV5647_AEC_ENABLE == 1
OV5647_AGC_ENABLE == 2

OV5647_REG_EXPOSURE_HI == 13568
OV5647_REG_EXPOSURE_MID == 13569
OV5647_REG_EXPOSURE_LO == 13570
OV5647_REG_GAIN_HI == 13578
OV5647_REG_GAIN_LO == 13579
OV5647_REG_AWB == 20481

(* media bus codes (uapi/linux/media-bus-format.h) used by the mode table *)
MEDIA_BUS_FMT_SBGGR8_1X8 == 12289
MEDIA_BUS_FMT_SBGGR10_1X10 == 12295

(* A successful i2c_master_send of the 3-byte write message returns 3 and  *)
(* a successful i2c_master_recv of one byte returns 1; ov5647_write and    *)
(* ov5647_read return these counts unchanged.                              *)
I2C_WRITE_LEN == 3
I2C_READ_LEN == 1

(* Negative errno values of the environment: a failed register write       *)
(* reports -EIO, a failed register read -EREMOTEIO, a failed clock enable  *)
(* -EINVAL, so that the origin of a returned error is visible.             *)
EIO == -5
EREMOTEIO == -121
EINVAL == -22

(* value of reset_gpio when devm_gpiod_get_optional found no GPIO *)
GPIO_ABSENT == -1

(***************************************************************************)
(* Bounds of the model.                                                    *)
(***************************************************************************)
(* callers hold at most MaxPowerCount outstanding acquires *)
MaxPowerCount == 2
(* callers issue at most MaxUnderflow releases beyond their acquires *)
MaxUnderflow == 1
(* at most MaxFaults transport/clock faults are injected into one call *)
MaxFaults == 2
(* inside a register table a fault hits one of the first MaxFaultPos ops   *)
(* or the last op                                                          *)
MaxFaultPos == 2

(* Bytes a register read can deliver. *)
ReadVals == {0, 255}

(***************************************************************************)
(* Register tables.                                                        *)
(***************************************************************************)
(* struct regval_list sensor_oe_disable_regs[]: 3 ops <<addr, data>>, source order kept. *)
sensor_oe_disable_regs ==
  <<
    <<12288, 0>>, <<12289, 0>>, <<12290, 0>>
  >>

(* struct regval_list sensor_oe_enable_regs[]: 3 ops <<addr, data>>, source order kept. *)
sensor_oe_enable_regs ==
  <<
    <<12288, 15>>, <<12289, 255>>, <<12290, 228>>
  >>

(* struct regval_list ov5647_640x480[]: 97 ops <<addr, data>>, source order kept. *)
ov5647_640x480 ==
  <<
    <<256, 0>>, <<259, 1>>, <<12340, 8>>, <<12341, 33>>, <<12342, 70>>, <<12348, 17>>,
    <<12550, 245>>, <<14369, 7>>, <<14368, 65>>, <<14375, 236>>, <<14092, 15>>, <<13842, 89>>,
    <<13848, 0>>, <<20480, 6>>, <<20481, 1>>, <<20482, 65>>, <<20483, 0>>, <<20541, 0>>,
    <<23040, 8>>, <<13571, 0>>, <<13568, 0>>, <<13569, 64>>, <<13570, 0>>, <<13578, 0>>,
    <<13579, 64>>, <<12288, 0>>, <<12289, 0>>, <<12290, 0>>, <<12310, 8>>, <<12311, 224>>,
    <<12312, 68>>, <<12316, 248>>, <<12317, 240>>, <<14872, 0>>, <<14873, 248>>, <<15361, 128>>,
    <<15111, 12>>, <<14348, 7>>, <<14349, 104>>, <<14350, 3>>, <<14351, 216>>, <<14356, 113>>,
    <<14357, 113>>, <<14088, 100>>, <<14089, 82>>, <<14344, 2>>, <<14345, 128>>, <<14346, 1>>,
    <<14347, 224>>, <<14336, 0>>, <<14337, 0>>, <<14338, 0>>, <<14339, 0>>, <<14340, 10>>,
    <<14341, 63>>, <<14342, 7>>, <<14343, 161>>, <<14353, 8>>, <<14355, 2>>, <<13872, 46>>,
    <<13874, 226>>, <<13875, 35>>, <<13876, 68>>, <<13878, 6>>, <<13856, 100>>, <<13857, 224>>,
    <<13824, 55>>, <<14084, 160>>, <<14083, 90>>, <<14101, 120>>, <<14103, 1>>, <<14129, 2>>,
    <<14091, 96>>, <<14085, 26>>, <<16133, 2>>, <<16134, 16>>, <<16129, 10>>, <<14856, 1>>,
    <<14857, 39>>, <<14858, 0>>, <<14859, 246>>, <<14861, 4>>, <<14862, 3>>, <<14863, 88>>,
    <<14864, 80>>, <<14875, 88>>, <<14878, 80>>, <<14865, 96>>, <<14879, 40>>, <<16385, 2>>,
    <<16388, 2>>, <<16384, 9>>, <<18487, 36>>, <<16464, 110>>, <<16465, 143>>, <<18432, 52>>,
    <<256, 1>>
  >>

(* struct regval_list ov5647_2592x1944[]: 97 ops <<addr, data>>, source order kept. *)
ov5647_2592x1944 ==
  <<
    <<256, 0>>, <<259, 1>>, <<12340, 8>>, <<12341, 33>>, <<12342, 105>>, <<12348, 17>>,
    <<12550, 245>>, <<14369, 6>>, <<14368, 0>>, <<14375, 236>>, <<14092, 3>>, <<13842, 91>>,
    <<13848, 4>>, <<20480, 6>>, <<20481, 1>>, <<20482, 65>>, <<20483, 0>>, <<20541, 0>>,
    <<23040, 8>>, <<13571, 0>>, <<13568, 0>>, <<13569, 64>>, <<13570, 0>>, <<13578, 0>>,
    <<13579, 64>>, <<12288, 0>>, <<12289, 0>>, <<12290, 0>>, <<12310, 8>>, <<12311, 224>>,
    <<12312, 68>>, <<12316, 248>>, <<12317, 240>>, <<14872, 0>>, <<14873, 248>>, <<15361, 128>>,
    <<15111, 12>>, <<14348, 11>>, <<14349, 28>>, <<14350, 7>>, <<14351, 176>>, <<14356, 17>>,
    <<14357, 17>>, <<14088, 100>>, <<14089, 18>>, <<14344, 10>>, <<14345, 32>>, <<14346, 7>>,
    <<14347, 152>>, <<14336, 0>>, <<14337, 0>>, <<14338, 0>>, <<14339, 0>>, <<14340, 10>>,
    <<14341, 63>>, <<14342, 7>>, <<14343, 163>>, <<14352, 0>>, <<14353, 16>>, <<14354, 0>>,
    <<14355, 6>>, <<13872, 46>>, <<13874, 226>>, <<13875, 35>>, <<13876, 68>>, <<13878, 6>>,
    <<13856, 100>>, <<13857, 224>>, <<13824, 55>>, <<14084, 160>>, <<14083, 90>>, <<14101, 120>>,
    <<14103, 1>>, <<14129, 2>>, <<14091, 96>>, <<14085, 26>>, <<16133, 2>>, <<16134, 16>>,
    <<16129, 10>>, <<14856, 1>>, <<14857, 40>>, <<14858, 0>>, <<14859, 246>>, <<14861, 8>>,
    <<14862, 6>>, <<14863, 88>>, <<14864, 80>>, <<14875, 88>>, <<14878, 80>>, <<14865, 96>>,
    <<14879, 40>>, <<16385, 2>>, <<16388, 4>>, <<16384, 9>>, <<18487, 25>>, <<18432, 52>>,
    <<256, 1>>
  >>

(* struct regval_list ov5647_1280x960[]: 95 ops <<addr, data>>, source order kept. *)
ov5647_1280x960 ==
  <<
    <<256, 0>>, <<259, 1>>, <<12340, 8>>, <<12341, 33>>, <<12342, 70>>, <<12348, 17>>,
    <<12550, 245>>, <<14369, 6>>, <<14368, 0>>, <<14375, 236>>, <<14092, 15>>, <<13842, 89>>,
    <<13848, 0>>, <<20480, 6>>, <<20481, 1>>, <<20482, 65>>, <<20483, 0>>, <<20541, 0>>,
    <<23040, 8>>, <<13571, 0>>, <<13568, 0>>, <<13569, 64>>, <<13570, 0>>, <<13578, 0>>,
    <<13579, 64>>, <<12288, 0>>, <<12289, 0>>, <<12290, 0>>, <<12310, 8>>, <<12311, 224>>,
    <<12312, 68>>, <<12316, 248>>, <<12317, 240>>, <<14872, 0>>, <<14873, 248>>, <<15361, 128>>,
    <<15111, 12>>, <<14348, 7>>, <<14349, 104>>, <<14350, 3>>, <<14351, 216>>, <<14356, 49>>,
    <<14357, 49>>, <<14088, 100>>, <<14089, 82>>, <<14344, 5>>, <<14345, 0>>, <<14346, 3>>,
    <<14347, 192>>, <<14336, 0>>, <<14337, 8>>, <<14338, 0>>, <<14339, 2>>, <<14340, 10>>,
    <<14341, 55>>, <<14342, 7>>, <<14343, 159>>, <<14353, 4>>, <<14355, 2>>, <<13872, 46>>,
    <<13874, 226>>, <<13875, 35>>, <<13876, 68>>, <<13878, 6>>, <<13856, 100>>, <<13857, 224>>,
    <<13824, 55>>, <<14084, 160>>, <<14083, 90>>, <<14101, 120>>, <<14103, 1>>, <<14129, 2>>,
    <<14091, 96>>, <<14085, 26>>, <<16133, 2>>, <<16134, 16>>, <<16129, 10>>, <<14856, 1>>,
    <<14857, 40>>, <<14858, 0>>, <<14859, 246>>, <<14861, 8>>, <<14862, 6>>, <<14863, 88>>,
    <<14864, 80>>, <<14875, 88>>, <<14878, 80>>, <<14865, 96>>, <<14879, 40>>, <<16385, 2>>,
    <<16388, 4>>, <<16384, 9>>, <<18487, 22>>, <<18432, 52>>, <<256, 1>>
  >>

(* struct regval_list ov5647_1920x1080[]: 88 ops <<addr, data>>, source order kept. *)
ov5647_1920x1080 ==
  <<
    <<256, 0>>, <<259, 1>>, <<12340, 26>>, <<12341, 33>>, <<12342, 98>>, <<12348, 17>>,
    <<12550, 245>>, <<14369, 6>>, <<14368, 0>>, <<14375, 236>>, <<14092, 3>>, <<13842, 91>>,
    <<13848, 4>>, <<20480, 6>>, <<20482, 65>>, <<20483, 8>>, <<23040, 8>>, <<12288, 0>>,
    <<12289, 0>>, <<12290, 0>>, <<12310, 8>>, <<12311, 224>>, <<12312, 68>>, <<12316, 248>>,
    <<12317, 240>>, <<14872, 0>>, <<14873, 248>>, <<15361, 128>>, <<15111, 12>>, <<14348, 9>>,
    <<14349, 112>>, <<14350, 4>>, <<14351, 80>>, <<14356, 17>>, <<14357, 17>>, <<14088, 100>>,
    <<14089, 18>>, <<14344, 7>>, <<14345, 128>>, <<14346, 4>>, <<14347, 56>>, <<14336, 1>>,
    <<14337, 92>>, <<14338, 1>>, <<14339, 178>>, <<14340, 8>>, <<14341, 227>>, <<14342, 5>>,
    <<14343, 241>>, <<14353, 4>>, <<14355, 2>>, <<13872, 46>>, <<13874, 226>>, <<13875, 35>>,
    <<13876, 68>>, <<13878, 6>>, <<13856, 100>>, <<13857, 224>>, <<13824, 55>>, <<14084, 160>>,
    <<14083, 90>>, <<14101, 120>>, <<14103, 1>>, <<14129, 2>>, <<14091, 96>>, <<14085, 26>>,
    <<16133, 2>>, <<16134, 16>>, <<16129, 10>>, <<14856, 1>>, <<14857, 75>>, <<14858, 1>>,
    <<14859, 19>>, <<14861, 4>>, <<14862, 3>>, <<14863, 88>>, <<14864, 80>>, <<14875, 88>>,
    <<14878, 80>>, <<14865, 96>>, <<14879, 40>>, <<16385, 2>>, <<16388, 4>>, <<16384, 9>>,
    <<18487, 25>>, <<18432, 52>>, <<13571, 0>>, <<256, 1>>
  >>

(* struct regval_list ov5647_1296x972[]: 97 ops <<addr, data>>, source order kept. *)
ov5647_1296x972 ==
  <<
    <<256, 0>>, <<259, 1>>, <<12340, 8>>, <<12341, 33>>, <<12342, 70>>, <<12348, 17>>,
    <<12550, 245>>, <<14369, 7>>, <<14368, 65>>, <<14375, 236>>, <<14092, 15>>, <<13842, 89>>,
    <<13848, 0>>, <<20480, 6>>, <<20481, 1>>, <<20482, 65>>, <<20483, 0>>, <<20541, 0>>,
    <<23040, 8>>, <<13571, 0>>, <<13568, 0>>, <<13569, 64>>, <<13570, 0>>, <<13578, 0>>,
    <<13579, 64>>, <<12288, 0>>, <<12289, 0>>, <<12290, 0>>, <<12310, 8>>, <<12311, 224>>,
    <<12312, 68>>, <<12316, 248>>, <<12317, 240>>, <<14872, 0>>, <<14873, 248>>, <<15361, 128>>,
    <<15111, 12>>, <<14348, 7>>, <<14349, 104>>, <<14350, 5>>, <<14351, 155>>, <<14356, 49>>,
    <<14357, 49>>, <<14088, 100>>, <<14089, 82>>, <<14344, 5>>, <<14345, 16>>, <<14346, 3>>,
    <<14347, 204>>, <<14336, 0>>, <<14337, 0>>, <<14338, 0>>, <<14339, 0>>, <<14340, 10>>,
    <<14341, 63>>, <<14342, 7>>, <<14343, 163>>, <<14352, 0>>, <<14353, 8>>, <<14354, 0>>,
    <<14355, 2>>, <<13872, 46>>, <<13874, 226>>, <<13875, 35>>, <<13876, 68>>, <<13878, 6>>,
    <<13856, 100>>, <<13857, 224>>, <<13824, 55>>, <<14084, 160>>, <<14083, 90>>, <<14101, 120>>,
    <<14103, 1>>, <<14129, 2>>, <<14091, 96>>, <<14085, 26>>, <<16133, 2>>, <<16134, 16>>,
    <<16129, 10>>, <<14856, 1>>, <<14857, 40>>, <<14858, 0>>, <<14859, 246>>, <<14861, 8>>,
    <<14862, 6>>, <<14863, 88>>, <<14864, 80>>, <<14875, 88>>, <<14878, 80>>, <<14865, 96>>,
    <<14879, 40>>, <<16385, 2>>, <<16388, 4>>, <<16384, 9>>, <<18487, 22>>, <<18432, 52>>,
    <<256, 1>>
  >>

(* struct regval_list ov5647_640x480_binned[]: 97 ops <<addr, data>>, source order kept. *)
ov5647_640x480_binned ==
  <<
    <<256, 0>>, <<259, 1>>, <<12340, 8>>, <<12341, 33>>, <<12342, 70>>, <<12348, 17>>,
    <<12550, 245>>, <<14369, 7>>, <<14368, 65>>, <<14375, 236>>, <<14092, 15>>, <<13842, 89>>,
    <<13848, 0>>, <<20480, 6>>, <<20481, 1>>, <<20482, 65>>, <<20483, 0>>, <<20541, 0>>,
    <<23040, 8>>, <<13571, 0>>, <<13568, 0>>, <<13569, 64>>, <<13570, 0>>, <<13578, 0>>,
    <<13579, 64>>, <<12288, 0>>, <<12289, 0>>, <<12290, 0>>, <<12310, 8>>, <<12311, 224>>,
    <<12312, 68>>, <<12316, 248>>, <<12317, 240>>, <<14872, 0>>, <<14873, 248>>, <<15361, 128>>,
    <<15111, 12>>, <<14348, 7>>, <<14349, 60>>, <<14350, 1>>, <<14351, 248>>, <<14356, 53>>,
    <<14357, 53>>, <<14088, 100>>, <<14089, 82>>, <<14344, 2>>, <<14345, 128>>, <<14346, 1>>,
    <<14347, 224>>, <<14336, 0>>, <<14337, 16>>, <<14338, 0>>, <<14339, 0>>, <<14340, 10>>,
    <<14341, 47>>, <<14342, 7>>, <<14343, 159>>, <<14352, 0>>, <<14353, 16>>, <<14354, 0>>,
    <<14355, 4>>, <<13872, 46>>, <<13874, 226>>, <<13875, 35>>, <<13876, 68>>, <<13878, 6>>,
    <<13856, 100>>, <<13857, 224>>, <<13824, 55>>, <<14084, 160>>, <<14083, 90>>, <<14101, 120>>,
    <<14103, 1>>, <<14129, 2>>, <<14091, 96>>, <<14085, 26>>, <<16133, 2>>, <<16134, 16>>,
    <<16129, 10>>, <<14856, 1>>, <<14857, 40>>, <<14858, 0>>, <<14859, 246>>, <<14861, 8>>,
    <<14862, 6>>, <<14863, 88>>, <<14864, 80>>, <<14875, 88>>, <<14878, 80>>, <<14865, 96>>,
    <<14879, 40>>, <<16385, 2>>, <<16388, 2>>, <<16384, 9>>, <<18487, 36>>, <<18432, 52>>,
    <<256, 1>>
  >>

(* struct ov5647_mode ov5647_modes[], C index i is ov5647_modes[i + 1]. *)
ov5647_modes ==
  << [width |-> 640,  height |-> 480,  mbus_code |-> MEDIA_BUS_FMT_SBGGR8_1X8,
      pixel_rate |-> 55000000, reg_list |-> ov5647_640x480,
      num_regs |-> Len(ov5647_640x480)],
     [width |-> 640,  height |-> 480,  mbus_code |-> MEDIA_BUS_FMT_SBGGR8_1X8,
      pixel_rate |-> 55000000, reg_list |-> ov5647_640x480_binned,
      num_regs |-> Len(ov5647_640x480_binned)],
     [width |-> 1296, height |-> 972,  mbus_code |-> MEDIA_BUS_FMT_SBGGR8_1X8,
      pixel_rate |-> 81666700, reg_list |-> ov5647_1296x972,
      num_regs |-> Len(ov5647_1296x972)],
     [width |-> 1280, height |-> 960,  mbus_code |-> MEDIA_BUS_FMT_SBGGR8_1X8,
      pixel_rate |-> 55969920, reg_list |-> ov5647_1280x960,
      num_regs |-> Len(ov5647_1280x960)],
     [width |-> 1920, height |-> 1080, mbus_code |-> MEDIA_BUS_FMT_SBGGR10_1X10,
      pixel_rate |-> 81666700, reg_list |-> ov5647_1920x1080,
      num_regs |-> Len(ov5647_1920x1080)],
     [width |-> 2592, height |-> 1944, mbus_code |-> MEDIA_BUS_FMT_SBGGR8_1X8,
      pixel_rate |-> 87500000, reg_list |-> ov5647_2592x1944,
      num_regs |-> Len(ov5647_2592x1944)] >>

OV5647_NUM_MODES == Len(ov5647_modes)

(***************************************************************************)
(* Byte arithmetic.                                                        *)
(***************************************************************************)
RECURSIVE BitAnd(_, _)
BitAnd(a, b) ==
  IF a = 0 \/ b = 0 THEN 0
  ELSE (a % 2) * (b % 2) + 2 * BitAnd(a \div 2, b \div 2)

BitOr(a, b) == a + b - BitAnd(a, b)

(* ~m truncated to u8 *)
Not8(m) == 255 - m

(***************************************************************************)
(* Execution context of one driver call.                                   *)
(*   log   operations issued so far, each <<kind, addr, val, err>>:        *)
(*           "w"    register write of val to addr                          *)
(*           "r"    register read of addr; val is the byte the driver      *)
(*                  uses (NONE when the read failed or the driver does not *)
(*                  use the byte)                                          *)
(*           "clk"  val = 1 clk_prepare_enable, val = 0                    *)
(*                  clk_disable_unprepare                                  *)
(*           "gpio" gpiod_set_value_cansleep(reset_gpio, val)              *)
(*         err = 0 when the operation completed, else its negative errno   *)
(*   ret   return value of the last callee                                 *)
(*   val   byte delivered by the last read                                 *)
(*   nf    faults injected so far; quiet: no fault at the next operation   *)
(*   xclk  enable count of the clock; reset: value of the reset GPIO       *)
(***************************************************************************)
NONE == -1

NewCtx(clk, rst) ==
  [log |-> <<>>, ret |-> 0, val |-> 0, nf |-> 0, quiet |-> FALSE,
   xclk |-> clk, reset |-> rst]

CanFault(c) == ~c.quiet /\ c.nf < MaxFaults

MayFaultAt(i, n) == i <= MaxFaultPos \/ i = n

Arm(c, i, n) == [c EXCEPT !.quiet = ~MayFaultAt(i, n)]

Issue(c, ev, r, v) ==
  [c EXCEPT !.log = Append(@, ev), !.ret = r, !.val = v, !.quiet = FALSE,
            !.nf = IF ev[4] # 0 THEN @ + 1 ELSE @]

(* ov5647_write: one i2c_master_send; returns its result. *)
ov5647_write(c, reg, val) ==
  {Issue(c, <<"w", reg, val, 0>>, I2C_WRITE_LEN, c.val)}
  \cup (IF CanFault(c)
        THEN {Issue(c, <<"w", reg, val, EIO>>, EIO, c.val)}
        ELSE {})

(* ov5647_read whose byte the caller uses: address send, then one-byte     *)
(* receive; a failure of either is returned and leaves *val untouched.     *)
ov5647_read(c, reg) ==
  {Issue(c, <<"r", reg, v, 0>>, I2C_READ_LEN, v) : v \in ReadVals}
  \cup (IF CanFault(c)
        THEN {Issue(c, <<"r", reg, NONE, EREMOTEIO>>, EREMOTEIO, c.val)}
        ELSE {})

(* ov5647_read whose byte is only logged or never used by the caller. *)
ov5647_read_discard(c, reg) ==
  {Issue(c, <<"r", reg, NONE, 0>>, I2C_READ_LEN, c.val)}
  \cup (IF CanFault(c)
        THEN {Issue(c, <<"r", reg, NONE, EREMOTEIO>>, EREMOTEIO, c.val)}
        ELSE {})

clk_prepare_enable(c) ==
  {[Issue(c, <<"clk", 0, 1, 0>>, 0, c.val) EXCEPT !.xclk = @ + 1]}
  \cup (IF CanFault(c)
        THEN {Issue(c, <<"clk", 0, 1, EINVAL>>, EINVAL, c.val)}
        ELSE {})

clk_disable_unprepare(c) ==
  [c EXCEPT !.log = Append(@, <<"clk", 0, 0, 0>>), !.xclk = @ - 1]

(* IS_ERR_OR_NULL(reset_gpio): the optional reset GPIO is absent *)
gpiod_set_value_cansleep(c, v) ==
  IF c.reset = GPIO_ABSENT THEN c
  ELSE [c EXCEPT !.log = Append(@, <<"gpio", 0, v, 0>>), !.reset = v]

(* Apply step(d) to every context of S that has not failed. *)
Then(S, step(_)) ==
  UNION {IF d.ret < 0 THEN {d} ELSE step(d) : d \in S}

(***************************************************************************)
(* Register sequencer.                                                     *)
(***************************************************************************)
write_failed_nonzero(ret) == ret # 0

write_failed(ret) == ret < 0

(* The loop of ov5647_write_array over the ops lo..hi (1-based), issued in  *)
(* index order; the loop is left at the first failing write.  The range is *)
(* split in halves only to keep the evaluation depth logarithmic.          *)
RECURSIVE write_array_span(_, _, _, _, _)
write_array_span(c, regs, array_size, lo, hi) ==
  IF lo > hi THEN {c}
  ELSE IF lo = hi
  THEN ov5647_write(Arm(c, lo, array_size), regs[lo][1], regs[lo][2])
  ELSE LET mid == (lo + hi) \div 2
       IN  UNION {IF write_failed(d.ret) THEN {d}
                  ELSE write_array_span(d, regs, array_size, mid + 1, hi) :
                  d \in write_array_span(c, regs, array_size, lo, mid)}

write_array(c, regs, array_size) ==
  {[d EXCEPT !.ret = IF write_failed(d.ret) THEN d.ret ELSE 0] :
   d \in write_array_span([c EXCEPT !.ret = 0], regs, array_size, 1, array_size)}

ov5647_set_virtual_channel(c, channel) ==
  LET wr(d) == ov5647_write(d, OV5647_REG_MIPI_CTRL14,
                   BitOr(BitAnd(d.val, Not8(192)), channel * 64))
  IN  Then(ov5647_read(c, OV5647_REG_MIPI_CTRL14), wr)

ov5647_stream_on_pad_first(c) ==
  LET w2(d) == ov5647_write(d, OV5647_REG_FRAME_OFF_NUMBER, 0)
      w3(d) == ov5647_write(d, OV5640_REG_PAD_OUT, 0)
      w1(d) == ov5647_write(d, OV5647_REG_MIPI_CTRL00,
                   BitOr(MIPI_CTRL00_LINE_SYNC_ENABLE, MIPI_CTRL00_BUS_IDLE))
      dbg   == {[d EXCEPT !.ret = 0] :
                d \in ov5647_read_discard(c, OV5647_REG_MIPI_CTRL00)}
  IN  Then(Then(Then(dbg, w3), w1), w2)

ov5647_stream_on(c) ==
  LET w2(d) == ov5647_write(d, OV5647_REG_FRAME_OFF_NUMBER, 0)
      w3(d) == ov5647_write(d, OV5640_REG_PAD_OUT, 0)
      w1(d) == ov5647_write(d, OV5647_REG_MIPI_CTRL00,
                   BitOr(MIPI_CTRL00_LINE_SYNC_ENABLE, MIPI_CTRL00_BUS_IDLE))
      dbg   == {[d EXCEPT !.ret = 0] :
                d \in ov5647_read_discard(c, OV5647_REG_MIPI_CTRL00)}
  IN  Then(Then(Then(dbg, w1), w2), w3)

ov5647_stream_off_frames0(c) ==
  LET w2(d) == ov5647_write(d, OV5647_REG_FRAME_OFF_NUMBER, 0)
      w3(d) == ov5647_write(d, OV5640_REG_PAD_OUT, 1)
  IN  Then(Then(ov5647_write(c, OV5647_REG_MIPI_CTRL00,
                  BitOr(BitOr(MIPI_CTRL00_CLOCK_LANE_GATE, MIPI_CTRL00_BUS_IDLE),
                        MIPI_CTRL00_CLOCK_LANE_DISABLE)), w2), w3)

ov5647_stream_off(c) ==
  LET w2(d) == ov5647_write(d, OV5647_REG_FRAME_OFF_NUMBER, 15)
      w3(d) == ov5647_write(d, OV5640_REG_PAD_OUT, 1)
  IN  Then(Then(ov5647_write(c, OV5647_REG_MIPI_CTRL00,
                  BitOr(BitOr(MIPI_CTRL00_CLOCK_LANE_GATE, MIPI_CTRL00_BUS_IDLE),
                        MIPI_CTRL00_CLOCK_LANE_DISABLE)), w2), w3)

set_sw_standby(c, standby) ==
  LET wr(d) == ov5647_write(d, OV5647_SW_STANDBY,
                   IF standby THEN BitAnd(d.val, Not8(1)) ELSE BitOr(d.val, 1))
  IN  Then(ov5647_read(c, OV5647_SW_STANDBY), wr)

sensor_init_vc_last(c, mode_index) ==
  LET mode     == ov5647_modes[mode_index + 1]
      regs(d)  == write_array(d, mode.reg_list, mode.num_regs)
      dbg(d)   == {[e EXCEPT !.ret = 0] :
                   e \in ov5647_read_discard(d, OV5647_REG_MIPI_CTRL00)}
      vc(d)    == ov5647_set_virtual_channel(d, 0)
      rd(d)    == ov5647_read(d, OV5647_SW_STANDBY)
      wake(d)  == IF BitAnd(d.val, 1) = 0
                  THEN ov5647_write(d, OV5647_SW_STANDBY, 1)
                  ELSE {d}
      soff(d)  == ov5647_stream_off(d)
  IN  Then(Then(Then(Then(Then(Then(
        ov5647_read_discard(c, OV5647_SW_STANDBY), regs), dbg), rd), wake), soff), vc)

(* __sensor_init for the mode at C index mode_index. *)
sensor_init(c, mode_index) ==
  LET mode     == ov5647_modes[mode_index + 1]
      regs(d)  == write_array(d, mode.reg_list, mode.num_regs)
      dbg(d)   == {[e EXCEPT !.ret = 0] :
                   e \in ov5647_read_discard(d, OV5647_REG_MIPI_CTRL00)}
      vc(d)    == ov5647_set_virtual_channel(d, 0)
      rd(d)    == ov5647_read(d, OV5647_SW_STANDBY)
      wake(d)  == IF BitAnd(d.val, 1) = 0
                  THEN ov5647_write(d, OV5647_SW_STANDBY, 1)
                  ELSE {d}
      soff(d)  == ov5647_stream_off(d)
  IN  Then(Then(Then(Then(Then(Then(
        ov5647_read_discard(c, OV5647_SW_STANDBY), regs), dbg), vc), rd), wake), soff)

(***************************************************************************)
(* Power/reset state machine: ov5647_sensor_power (s_power).               *)
(* An outcome is the new power_count together with the final context.      *)
(***************************************************************************)
power_on_needed_any(on, count) == on # 0

power_on_needed(on, count) == on # 0 /\ count = 0

power_off_needed_le(on, count) == on = 0 /\ count <= 1

power_off_needed(on, count) == on = 0 /\ count = 1

power_count_update(on, count) == count + (IF on # 0 THEN 1 ELSE -1)

power_on_failed_counted(count, c) == [power_count |-> count + 1, c |-> c]

(* error exits of the power-on branch: jump to out, the count is untouched *)
power_on_failed(count, c) == [power_count |-> count, c |-> c]

power_on_reset_late(on, count, c, mode_index) ==
  LET init(e) ==
        {IF f.ret < 0
         THEN power_on_failed(count, clk_disable_unprepare(f))
         ELSE [power_count |-> power_count_update(on, count), c |-> f] :
         f \in sensor_init(gpiod_set_value_cansleep(e, 0), mode_index)}
      oe(d) ==
        UNION {IF e.ret < 0
               THEN {power_on_failed(count, clk_disable_unprepare(e))}
               ELSE init(e) :
               e \in write_array(d, sensor_oe_enable_regs,
                                 Len(sensor_oe_enable_regs))}
  IN  UNION {IF d.ret < 0 THEN {power_on_failed(count, d)} ELSE oe(d) :
             d \in clk_prepare_enable(c)}

power_on(on, count, c, mode_index) ==
  LET init(e) ==
        {IF f.ret < 0
         THEN power_on_failed(count, clk_disable_unprepare(f))
         ELSE [power_count |-> power_count_update(on, count), c |-> f] :
         f \in sensor_init(e, mode_index)}
      oe(d) ==
        UNION {IF e.ret < 0
               THEN {power_on_failed(count, clk_disable_unprepare(e))}
               ELSE init(e) :
               e \in write_array(gpiod_set_value_cansleep(d, 0),
                                 sensor_oe_enable_regs,
                                 Len(sensor_oe_enable_regs))}
  IN  UNION {IF d.ret < 0 THEN {power_on_failed(count, d)} ELSE oe(d) :
             d \in clk_prepare_enable(c)}

power_off_abort(on, count, c) ==
  LET oe   == write_array(c, sensor_oe_disable_regs,
                          Len(sensor_oe_disable_regs))
      stby == UNION {IF a.ret < 0 THEN {a} ELSE set_sw_standby(a, TRUE) : a \in oe}
  IN  {IF b.ret < 0
       THEN [power_count |-> count, c |-> b]
       ELSE [power_count |-> power_count_update(on, count),
             c |-> gpiod_set_value_cansleep(clk_disable_unprepare(b), 1)] :
       b \in stby}

power_off(on, count, c) ==
  LET oe   == write_array(c, sensor_oe_disable_regs,
                          Len(sensor_oe_disable_regs))
      stby == UNION {set_sw_standby(a, TRUE) : a \in oe}
  IN  {[power_count |-> power_count_update(on, count),
        c |-> gpiod_set_value_cansleep(clk_disable_unprepare(b), 1)] :
       b \in stby}

ov5647_sensor_power(on, count, c, mode_index) ==
  IF power_on_needed(on, count) THEN power_on(on, count, c, mode_index)
  ELSE IF power_off_needed(on, count) THEN power_off(on, count, c)
  ELSE {[power_count |-> power_count_update(on, count), c |-> c]}

(***************************************************************************)
(* Streaming controller: ov5647_s_stream.                                  *)
(***************************************************************************)
ov5647_s_stream_always_on(c, enable) == ov5647_stream_on(c)

ov5647_s_stream(c, enable) ==
  IF enable # 0 THEN ov5647_stream_on(c) ELSE ov5647_stream_off(c)

(***************************************************************************)
(* Control mapper: ov5647_s_ctrl.                                          *)
(***************************************************************************)
V4L2_CID_AUTO_WHITE_BALANCE == "V4L2_CID_AUTO_WHITE_BALANCE"
V4L2_CID_AUTOGAIN == "V4L2_CID_AUTOGAIN"
V4L2_CID_EXPOSURE_AUTO == "V4L2_CID_EXPOSURE_AUTO"
V4L2_CID_EXPOSURE == "V4L2_CID_EXPOSURE"
V4L2_CID_ANALOGUE_GAIN == "V4L2_CID_ANALOGUE_GAIN"
V4L2_EXPOSURE_AUTO == 0
V4L2_EXPOSURE_MANUAL == 1

ctrl_skipped(count) == count = 0

exposure_hi(val) == (val \div 4096) % 16
exposure_mid(val) == (val \div 16) % 256
exposure_lo_unshifted(val) == val % 16

exposure_lo(val) == (val * 16) % 256
gain_hi(val) == (val \div 256) % 4
gain_lo(val) == val % 256

agc_bits_cached(reg, val) == IF val # 0 THEN 0 ELSE OV5647_AGC_ENABLE

agc_bits(reg, val) ==
  IF val # 0 THEN BitAnd(reg, Not8(OV5647_AGC_ENABLE))
  ELSE BitOr(reg, OV5647_AGC_ENABLE)

aec_bits(reg, val) ==
  IF val = V4L2_EXPOSURE_AUTO THEN BitAnd(reg, Not8(OV5647_AEC_ENABLE))
  ELSE BitOr(reg, OV5647_AEC_ENABLE)

ctrl_result_ok(c) == [c EXCEPT !.ret = 0]

ctrl_result(c) == [c EXCEPT !.ret = IF c.ret < 0 THEN c.ret ELSE 0]

ov5647_s_ctrl(c, count, id, val) ==
  IF ctrl_skipped(count) THEN {[c EXCEPT !.ret = 0]}
  ELSE LET agc(d) == ov5647_write(d, OV5647_REG_AEC_AGC, agc_bits(d.val, val))
           aec(d) == ov5647_write(d, OV5647_REG_AEC_AGC, aec_bits(d.val, val))
           mid(d) == ov5647_write(d, OV5647_REG_EXPOSURE_MID, exposure_mid(val))
           lo(d)  == ov5647_write(d, OV5647_REG_EXPOSURE_LO, exposure_lo(val))
           glo(d) == ov5647_write(d, OV5647_REG_GAIN_LO, gain_lo(val))
           R == CASE id = V4L2_CID_AUTO_WHITE_BALANCE ->
                       ov5647_write(c, OV5647_REG_AWB, IF val # 0 THEN 1 ELSE 0)
                  [] id = V4L2_CID_AUTOGAIN ->
                       Then(ov5647_read(c, OV5647_REG_AEC_AGC), agc)
                  [] id = V4L2_CID_EXPOSURE_AUTO ->
                       Then(ov5647_read(c, OV5647_REG_AEC_AGC), aec)
                  [] id = V4L2_CID_EXPOSURE ->
                       Then(Then(ov5647_write(c, OV5647_REG_EXPOSURE_HI,
                                              exposure_hi(val)), mid), lo)
                  [] id = V4L2_CID_ANALOGUE_GAIN ->
                       Then(ov5647_write(c, OV5647_REG_GAIN_HI, gain_hi(val)), glo)
                  [] OTHER -> {[c EXCEPT !.ret = EINVAL]}
       IN  {ctrl_result(d) : d \in R}

(***************************************************************************)
(* 32-bit arithmetic.  A u32 is <<hi, lo>> with 16-bit halves, so that     *)
(* values up to 2^32 - 1 and their wrap-around are represented exactly.    *)
(* Signed int arithmetic wraps (the kernel is built with                   *)
(* -fno-strict-overflow).                                                  *)
(***************************************************************************)
U32(n) == <<n \div 65536, n % 65536>>

Add32(a, b) ==
  LET lo == a[2] + b[2]
      hi == a[1] + b[1] + (lo \div 65536)
  IN  <<hi % 65536, lo % 65536>>

Sub32(a, b) ==
  LET lo == a[2] - b[2]
      hi == a[1] - b[1] - (IF lo < 0 THEN 1 ELSE 0)
  IN  <<hi % 65536, lo % 65536>>

Lt32(a, b) == a[1] < b[1] \/ (a[1] = b[1] /\ a[2] < b[2])

(* abs() of an int given by its 32-bit pattern *)
abs_int(a) == IF a[1] >= 32768 THEN Sub32(<<0, 0>>, a) ELSE a

FORMAT_PENALTY == 10000

(* diff of set_fmt's loop body for the mode at C index i *)
mode_diff(i, w, h, code) ==
  LET m == ov5647_modes[i + 1]
      d == Add32(abs_int(Sub32(U32(m.width), w)),
                 abs_int(Sub32(U32(m.height), h)))
  IN  IF m.mbus_code # code THEN Add32(d, U32(FORMAT_PENALTY)) ELSE d

better(diff, best_diff) == Lt32(diff, best_diff)

(* the selection loop of ov5647_set_fmt, from C index i on *)
RECURSIVE best_mode_from(_, _, _, _, _, _)
best_mode_from(i, best_mode, best_diff, w, h, code) ==
  IF i >= OV5647_NUM_MODES THEN best_mode
  ELSE LET diff == mode_diff(i, w, h, code)
       IN  IF better(diff, best_diff)
           THEN best_mode_from(i + 1, i, diff, w, h, code)
           ELSE best_mode_from(i + 1, best_mode, best_diff, w, h, code)

find_best_mode(w, h, code) ==
  best_mode_from(0, 0, <<65535, 65535>>, w, h, code)

(***************************************************************************)
(* State.                                                                  *)
(***************************************************************************)
VARIABLES
  power_count,   \* struct ov5647 .power_count
  current_mode,  \* struct ov5647 .current_mode (C index)
  width,         \* struct ov5647 .width
  height,        \* struct ov5647 .height
  xclk,          \* enable count of ov5647->xclk
  reset_gpio,    \* reset GPIO value: 1 asserted, 0 deasserted, or GPIO_ABSENT
  dev,           \* last value written to each tracked sensor register
  log,           \* operations issued by the most recent call
  ret,           \* return value of the most recent call
  call,          \* the most recent call: entry point, argument, power_count before
  run,           \* bookkeeping of an acquire/release run that started at count 0
  prev,          \* the call before the most recent one: a successful stream-on, a failed acquire, or other
  registered,    \* the subdev is registered (probe succeeded)
  runtime_status, \* dev->power.runtime_status of the i2c device
  lock,          \* struct ov5647 .lock: 0 when free, else the caller holding it
  task           \* position of every concurrent caller

vars == <<power_count, current_mode, width, height, xclk, reset_gpio,
          dev, log, ret, call, run, prev, registered, runtime_status, lock, task>>

(* runtime PM status of the device (enum rpm_status of the PM core) *)
RPM_ACTIVE == "RPM_ACTIVE"
RPM_SUSPENDED == "RPM_SUSPENDED"

(* concurrent callers *)
Callers == {1, 2}

(* A caller of s_power: where it is in ov5647_sensor_power (pc), its        *)
(* argument (on), power_count when it made the call (at), the operations   *)
(* its branch issues (plan) and how many of them are on the bus (pos), the *)
(* change it applies to power_count (delta), its return value (ret), what  *)
(* the call issues (kind) and whether another caller's acquire was waiting *)
(* for or inside its body when the call was made and that caller has made  *)
(* no call since (peer).                                                   *)
(* The other entry points use in addition: the entry point (op) and its    *)
(* argument (arg), the value of current_mode the call has loaded (mode),   *)
(* whether it loaded it without holding the lock (bare), and for every     *)
(* operation it has put on the bus the power phase of the sensor at that   *)
(* moment (seen), and for a call that reads the active format the mode the *)
(* other caller's set_fmt had returned when the call was made, -1 when     *)
(* that caller held no set_fmt result (since); for set_fmt and get_fmt     *)
(* fmt->which (which); for s_ctrl the local variable reg (reg).            *)
NoTask == [pc |-> "idle", on |-> 0, at |-> 0, plan |-> <<>>, pos |-> 0,
           delta |-> 0, ret |-> 0, kind |-> "none", peer |-> FALSE,
           op |-> "none", arg |-> 0, mode |-> 0, bare |-> FALSE, seen |-> <<>>,
           since |-> -1, which |-> "V4L2_SUBDEV_FORMAT_ACTIVE", reg |-> 0]

Tracked == {OV5647_SW_STANDBY, OV5640_REG_PAD_OUT,
            OV5647_REG_FRAME_OFF_NUMBER, OV5647_REG_MIPI_CTRL00}

Max(S) == CHOOSE x \in S : \A y \in S : y <= x

(* value of the last completed write to addr in lg, or old when there is none *)
LastWritten(lg, addr, old) ==
  LET W == {i \in 1..Len(lg) : lg[i][1] = "w" /\ lg[i][2] = addr /\ lg[i][4] = 0}
  IN  IF W = {} THEN old ELSE lg[Max(W)][3]

DevAfter(d, lg) == [a \in DOMAIN d |-> LastWritten(lg, a, d[a])]

Clean(lg) == \A i \in 1..Len(lg) : lg[i][4] = 0

NoRun == [phase |-> "none", acq |-> 0, rel |-> 0, on |-> 0, off |-> 0, busy |-> 0]

NoCall == [op |-> "none", arg |-> 0, pre |-> 0]

(* State after a successful probe followed by runtime suspend: the sensor  *)
(* is unpowered, reset asserted (when the optional GPIO exists), mode 0.   *)
Init ==
  /\ power_count = 0
  /\ current_mode = 0
  /\ width = 0
  /\ height = 0
  /\ xclk = 0
  /\ reset_gpio \in {1, GPIO_ABSENT}
  /\ dev = [a \in Tracked |-> NONE]
  /\ log = <<>>
  /\ ret = 0
  /\ call = NoCall
  /\ run = NoRun
  /\ prev = "other"
  /\ registered = TRUE
  /\ runtime_status = RPM_SUSPENDED
  /\ lock = 0
  /\ task = [t \in Callers |-> NoTask]

(***************************************************************************)
(* Reference sequences used to classify what a call did.                   *)
(***************************************************************************)
Writes(regs) == [i \in 1..Len(regs) |-> <<"w", regs[i][1], regs[i][2], 0>>]

GpioEv(rst, v) == IF rst = GPIO_ABSENT THEN <<>> ELSE << <<"gpio", 0, v, 0>> >>

StreamOffWrites ==
  << <<"w", OV5647_REG_MIPI_CTRL00, 37, 0>>,
     <<"w", OV5647_REG_FRAME_OFF_NUMBER, 15, 0>>,
     <<"w", OV5640_REG_PAD_OUT, 1, 0>> >>

(* clock enable, reset deassert, output-enable writes, then the mode       *)
(* sequence of the mode at C index m, up to its last op                    *)
PowerOnHead(m, rst) ==
  << <<"clk", 0, 1, 0>> >> \o GpioEv(rst, 0) \o Writes(sensor_oe_enable_regs)
  \o << <<"r", OV5647_SW_STANDBY, NONE, 0>> >>
  \o Writes(ov5647_modes[m + 1].reg_list)

IsPowerOnLog(lg, m, rst) ==
  LET head == PowerOnHead(m, rst)
  IN  /\ Len(lg) >= Len(head) + 7
      /\ SubSeq(lg, 1, Len(head)) = head
      /\ SubSeq(lg, Len(lg) - 2, Len(lg)) = StreamOffWrites
      /\ \A i \in 1..Len(lg) : lg[i][1] # "clk" \/ i = 1

IsPowerOffLog(lg, rst) ==
  \E v \in ReadVals :
    lg = Writes(sensor_oe_disable_regs)
         \o << <<"r", OV5647_SW_STANDBY, v, 0>>,
               <<"w", OV5647_SW_STANDBY, BitAnd(v, 254), 0>>,
               <<"clk", 0, 0, 0>> >>
         \o GpioEv(rst, 1)

(* Bookkeeping of a run of acquires followed by releases that starts at    *)
(* power_count 0 with no fault injected: how many calls ran a power-on,    *)
(* how many a power-off, how many issued any operation at all.             *)
RunAfter(r, on, pre, lg, m, rst) ==
  LET pon  == IF IsPowerOnLog(lg, m, rst) THEN 1 ELSE 0
      poff == IF IsPowerOffLog(lg, rst) THEN 1 ELSE 0
      bz   == IF lg # <<>> THEN 1 ELSE 0
  IN  IF ~Clean(lg) THEN NoRun
      ELSE IF on # 0 /\ pre = 0 /\ r.phase # "up"
      THEN [phase |-> "up", acq |-> 1, rel |-> 0, on |-> pon, off |-> poff,
            busy |-> bz]
      ELSE IF on # 0 /\ r.phase = "up"
      THEN [r EXCEPT !.acq = @ + 1, !.on = @ + pon, !.off = @ + poff,
                     !.busy = @ + bz]
      ELSE IF on = 0 /\ r.phase \in {"up", "down"} /\ r.rel < r.acq
      THEN [r EXCEPT !.phase = "down", !.rel = @ + 1, !.on = @ + pon,
                     !.off = @ + poff, !.busy = @ + bz]
      ELSE NoRun

(***************************************************************************)
(* Actions: one per driver entry point.                                    *)
(***************************************************************************)
(* s_power(on) *)
SPower(on) ==
  /\ call = NoCall
  /\ registered
  /\ on # 0 => power_count < MaxPowerCount
  /\ on = 0 => power_count > -MaxUnderflow
  /\ \E o \in ov5647_sensor_power(on, power_count, NewCtx(xclk, reset_gpio),
                                  current_mode) :
       /\ power_count' = o.power_count
       /\ xclk' = o.c.xclk
       /\ reset_gpio' = o.c.reset
       /\ log' = o.c.log
       /\ ret' = o.c.ret
       /\ dev' = DevAfter(dev, o.c.log)
       /\ call' = [op |-> "s_power", arg |-> on, pre |-> power_count]
       /\ run' = RunAfter(run, on, power_count, o.c.log, current_mode, reset_gpio)
  /\ UNCHANGED <<current_mode, width, height, prev, registered, runtime_status, lock, task>>

Acquire == SPower(1)

Release == SPower(0)

(* s_stream(enable) *)
SStream(enable) ==
  /\ call = NoCall
  /\ registered
  /\ \E d \in ov5647_s_stream(NewCtx(xclk, reset_gpio), enable) :
       /\ log' = d.log
       /\ ret' = d.ret
       /\ dev' = DevAfter(dev, d.log)
  /\ call' = [op |-> "s_stream", arg |-> enable, pre |-> power_count]
  /\ run' = NoRun
  /\ UNCHANGED <<power_count, current_mode, width, height, xclk, reset_gpio,
                 prev, registered, runtime_status, lock, task>>

StreamOn == SStream(1)

StreamOff == SStream(0)

(* Controls and values applied by the control framework. *)
CtrlInputs ==
  {<<V4L2_CID_AUTO_WHITE_BALANCE, 0>>, <<V4L2_CID_AUTO_WHITE_BALANCE, 1>>,
   <<V4L2_CID_AUTOGAIN, 0>>, <<V4L2_CID_AUTOGAIN, 1>>,
   <<V4L2_CID_EXPOSURE_AUTO, V4L2_EXPOSURE_AUTO>>,
   <<V4L2_CID_EXPOSURE_AUTO, V4L2_EXPOSURE_MANUAL>>,
   <<V4L2_CID_EXPOSURE, 4660>>, <<V4L2_CID_ANALOGUE_GAIN, 683>>}

(* s_ctrl, called by the control framework with the device lock held, for *)
(* a control and value of Inputs                                           *)
SCtrlFrom(Inputs) ==
  /\ call = NoCall
  /\ registered
  /\ \E in \in Inputs :
       \E d \in ov5647_s_ctrl(NewCtx(xclk, reset_gpio), power_count, in[1], in[2]) :
         /\ log' = d.log
         /\ ret' = d.ret
         /\ dev' = DevAfter(dev, d.log)
         /\ call' = [op |-> "s_ctrl", arg |-> in, pre |-> power_count]
  /\ run' = NoRun
  /\ UNCHANGED <<power_count, current_mode, width, height, xclk, reset_gpio,
                 prev, registered, runtime_status, lock, task>>

SCtrl == SCtrlFrom(CtrlInputs)

(* set_fmt on the active format; req = <<width, height, code>>, width and  *)
(* height as u32                                                           *)
SetFmt(Reqs) ==
  /\ call = NoCall
  /\ registered
  /\ \E req \in Reqs :
       LET best_mode == find_best_mode(req[1], req[2], req[3])
       IN  /\ current_mode' = best_mode
           /\ width' = ov5647_modes[best_mode + 1].width
           /\ height' = ov5647_modes[best_mode + 1].height
           /\ call' = [op |-> "set_fmt", arg |-> req, pre |-> power_count]
  /\ log' = <<>>
  /\ ret' = 0
  /\ run' = NoRun
  /\ UNCHANGED <<power_count, xclk, reset_gpio, dev, prev, registered, runtime_status, lock, task>>

(* requests of the host in the device life cycle: the catalog sizes *)
ModeRequests ==
  {<<U32(ov5647_modes[i].width), U32(ov5647_modes[i].height),
     ov5647_modes[i].mbus_code>> : i \in 1..OV5647_NUM_MODES}

SetFmtMode == SetFmt(ModeRequests)

(* The caller has taken the result of the finished call: its record (log,  *)
(* ret, call) is dropped before the next call is issued.                   *)
Idle ==
  /\ call # NoCall
  /\ log' = <<>>
  /\ ret' = 0
  /\ call' = NoCall
  /\ prev' = IF call.op = "s_stream" /\ call.arg # 0 /\ ret >= 0
             THEN "stream_on"
             ELSE IF call.op = "s_power" /\ call.arg # 0 /\ ret < 0
             THEN "acquire_failed"
             ELSE "other"
  /\ UNCHANGED <<power_count, current_mode, width, height, xclk, reset_gpio,
                 dev, run, registered, runtime_status, lock, task>>

Next ==
  Acquire \/ Release \/ StreamOn \/ StreamOff \/ SCtrl \/ SetFmtMode \/ Idle

Spec == Init /\ [][Next]_vars

(***************************************************************************)
(* Mode selection in isolation: set_fmt on requests that cover exact,      *)
(* inexact, tied and extreme u32 sizes and every format code.              *)
(***************************************************************************)
MEDIA_BUS_FMT_SGRBG8_1X8 == 12290

SelWidths ==
  {U32(0), U32(640), U32(641), U32(1288), U32(1920), U32(2592),
   <<32768, 0>>, <<32768, 1921>>, <<65535, 65535>>}

SelHeights ==
  {U32(0), U32(479), U32(480), U32(966), U32(1080), U32(1944),
   <<32768, 0>>, <<32768, 1081>>, <<65535, 65535>>}

SelCodes ==
  {MEDIA_BUS_FMT_SBGGR8_1X8, MEDIA_BUS_FMT_SBGGR10_1X10, MEDIA_BUS_FMT_SGRBG8_1X8}

SelRequests == SelWidths \X SelHeights \X SelCodes

SetFmtAny == SetFmt(SelRequests)

NextSel == SetFmtAny \/ Idle

SpecSel == Init /\ [][NextSel]_vars

(***************************************************************************)
(* Register sequencer in isolation: ov5647_write_array on every table of   *)
(* at most MaxSeqLen ops over SeqOps.                                      *)
(***************************************************************************)
MaxSeqLen == 3

SeqOps == {<<OV5647_SW_STANDBY, 0>>, <<OV5647_SW_STANDBY, 1>>, <<12288, 15>>}

SeqTables == UNION {[1..n -> SeqOps] : n \in 0..MaxSeqLen}

WriteArrayCall ==
  /\ call = NoCall
  /\ registered
  /\ \E regs \in SeqTables :
       \E d \in write_array(NewCtx(xclk, reset_gpio), regs, Len(regs)) :
         /\ log' = d.log
         /\ ret' = d.ret
         /\ dev' = DevAfter(dev, d.log)
         /\ call' = [op |-> "write_array", arg |-> regs, pre |-> power_count]
  /\ run' = NoRun
  /\ UNCHANGED <<power_count, current_mode, width, height, xclk, reset_gpio,
                 prev, registered, runtime_status, lock, task>>

NextSeq == WriteArrayCall \/ Idle

SpecSeq == Init /\ [][NextSeq]_vars

(***************************************************************************)
(* Properties.                                                             *)
(***************************************************************************)
IsAcquire == call.op = "s_power" /\ call.arg # 0

IsRelease == call.op = "s_power" /\ call.arg = 0

(* error of the operation that failed last in lg *)
LastErr(lg) ==
  LET F == {i \in 1..Len(lg) : lg[i][4] # 0}
  IN  IF F = {} THEN 0 ELSE lg[Max(F)][4]

(* C1: a run of N acquires followed by N releases that starts at            *)
(* power_count 0 and meets no fault runs the full power-on sequence exactly *)
(* once, in the first acquire, and the full power-off sequence exactly      *)
(* once, in the last release; every other call of the run issues no         *)
(* operation and only moves the counter.                                    *)
C1_PowerOnceThm ==
  /\ run.phase = "up" =>
       /\ run.on = 1 /\ run.off = 0 /\ run.busy = 1
       /\ power_count = run.acq
  /\ run.phase = "down" /\ run.rel < run.acq =>
       /\ run.on = 1 /\ run.off = 0 /\ run.busy = 1
       /\ power_count = run.acq - run.rel
  /\ run.phase = "down" /\ run.rel = run.acq =>
       /\ run.on = 1 /\ run.off = 1 /\ run.busy = 2
       /\ power_count = 0

C1_Witness == run.phase = "down" /\ run.acq = 2 /\ run.rel = 2

(* C2: power_count is never negative, also when release is called more     *)
(* often than acquire.                                                      *)
C2_NonNegative == power_count >= 0

(* C3: between calls the clock is enabled by the power state machine        *)
(* exactly when power_count > 0, after successful and failed calls alike.   *)
C3_ClockIffCounted == (xclk > 0) <=> (power_count > 0)

C3_Witness ==
  /\ IsAcquire /\ call.pre = 0 /\ ret < 0
  /\ \E i \in 1..Len(log) : log[i] = <<"clk", 0, 0, 0>>
  /\ xclk = 0 /\ power_count = 0

(* C4: an acquire at power_count 0 whose power-on fails returns the error   *)
(* of the failing step and leaves the device in the OFF state it started    *)
(* from: power_count 0, clock disabled, reset line asserted again.          *)
C4_FailedAcquireIsOff ==
  (IsAcquire /\ call.pre = 0 /\ ret < 0) =>
    /\ ret = LastErr(log)
    /\ power_count = 0
    /\ xclk = 0
    /\ reset_gpio \in {1, GPIO_ABSENT}

(* C5: a release at power_count 0 issues no register read or write, no      *)
(* clock disable and no reset-line change.                                  *)
C5_ReleaseAtZeroIdle ==
  [][(call'.op = "s_power" /\ call'.arg = 0 /\ call'.pre = 0) =>
       (log' = <<>> /\ xclk' = xclk /\ reset_gpio' = reset_gpio /\ dev' = dev)]_vars

C5_Witness == IsRelease /\ call.pre = 0

(* the quiescent streaming state, as last written register values *)
IdleRegs ==
  /\ dev[OV5647_REG_MIPI_CTRL00] # NONE
  /\ BitAnd(dev[OV5647_REG_MIPI_CTRL00],
            MIPI_CTRL00_CLOCK_LANE_GATE + MIPI_CTRL00_BUS_IDLE)
       = MIPI_CTRL00_CLOCK_LANE_GATE + MIPI_CTRL00_BUS_IDLE
  /\ dev[OV5647_REG_FRAME_OFF_NUMBER] = 15
  /\ dev[OV5640_REG_PAD_OUT] = 1

(* C6: after every successful acquire at power_count 0 the last written     *)
(* values are the quiescent streaming state with bit 0 of the standby       *)
(* register set, and while the device stays powered only a stream-on call   *)
(* takes it out of the quiescent state.                                     *)
C6_IdleAfterPowerOn ==
  /\ [](IsAcquire /\ call.pre = 0 /\ ret >= 0 =>
          IdleRegs /\ BitAnd(dev[OV5647_SW_STANDBY], 1) = 1)
  /\ [][(power_count >= 1 /\ IdleRegs /\ ~IdleRegs') =>
          (call'.op = "s_stream" /\ call'.arg # 0)]_vars

C6_Witness ==
  /\ IsAcquire /\ call.pre = 0 /\ ret >= 0 /\ power_count = 1
  /\ \E i \in 1..Len(log) : log[i] = <<"r", OV5647_SW_STANDBY, 0, 0>>

(* C7: whenever the device is powered off, applying a control returns       *)
(* success and issues no transport read or write.                           *)
C7_OffControlsSilent ==
  (call.op = "s_ctrl" /\ xclk = 0) => (ret = 0 /\ log = <<>>)

(* Exact (unbounded) arithmetic on <<hi, lo>> numbers, lo a 16-bit half. *)
WLt(a, b) == a[1] < b[1] \/ (a[1] = b[1] /\ a[2] < b[2])

WAdd(a, b) == <<a[1] + b[1] + ((a[2] + b[2]) \div 65536), (a[2] + b[2]) % 65536>>

WAbsDiff(a, b) ==
  LET x  == IF WLt(a, b) THEN b ELSE a
      y  == IF WLt(a, b) THEN a ELSE b
      lo == x[2] - y[2]
  IN  <<x[1] - y[1] - (IF lo < 0 THEN 1 ELSE 0), lo % 65536>>

(* cost of the catalog entry at C index i for request req, in exact arithmetic *)
Cost(i, req) ==
  LET m == ov5647_modes[i + 1]
  IN  WAdd(WAdd(WAbsDiff(U32(m.width), req[1]), WAbsDiff(U32(m.height), req[2])),
           IF m.mbus_code # req[3] THEN U32(10000) ELSE U32(0))

MinCostIndex(b, req) ==
  \A i \in 0..(OV5647_NUM_MODES - 1) :
    /\ ~WLt(Cost(i, req), Cost(b, req))
    /\ i < b => WLt(Cost(b, req), Cost(i, req))

(* C8: for every request set_fmt selects the catalog entry of minimum cost  *)
(* |width_i - w| + |height_i - h| + (format differs ? 10000 : 0), the       *)
(* lowest index among entries of equal cost.                                *)
C8_SelectsMinCost ==
  call.op = "set_fmt" =>
    /\ MinCostIndex(current_mode, call.arg)
    /\ width = ov5647_modes[current_mode + 1].width
    /\ height = ov5647_modes[current_mode + 1].height

(* C9: for every u32 width and height and every format some catalog entry   *)
(* has, set_fmt selects an entry of the requested format.                   *)
C9_FormatMatchWins ==
  (call.op = "set_fmt"
     /\ \E i \in 1..OV5647_NUM_MODES : ov5647_modes[i].mbus_code = call.arg[3])
  => ov5647_modes[current_mode + 1].mbus_code = call.arg[3]

(* C10: the writes issued by one write_array call are a prefix of the table *)
(* in table order, every write before the last issued one completed, the    *)
(* call returns the error of a failing write and issues nothing after it,   *)
(* and it returns 0 exactly when the whole table was written.               *)
C10_SequencerPrefix ==
  call.op = "write_array" =>
    LET regs == call.arg
        n    == Len(log)
    IN  /\ n <= Len(regs)
        /\ \A i \in 1..n :
             log[i][1] = "w" /\ log[i][2] = regs[i][1] /\ log[i][3] = regs[i][2]
        /\ \A i \in 1..(n - 1) : log[i][4] = 0
        /\ (n > 0 /\ log[n][4] # 0) => ret = log[n][4]
        /\ ret <= 0
        /\ ret = 0 <=> (n = Len(regs) /\ Clean(log))

C10_Witness ==
  /\ call.op = "write_array" /\ Len(call.arg) = 3
  /\ Len(log) = 2 /\ ret < 0 /\ log[1][4] = 0


(***************************************************************************)
(* Control mapper in isolation: the sensor is powered and idle (the state  *)
(* a successful first acquire leaves), and s_ctrl is applied for every     *)
(* exposure and gain value of the ranges the controls are created with.    *)
(***************************************************************************)
ExposureRange == 1..65535

GainRange == 16..1023

CtrlRangeInputs ==
  {<<V4L2_CID_EXPOSURE, v>> : v \in ExposureRange}
  \cup {<<V4L2_CID_ANALOGUE_GAIN, g>> : g \in GainRange}

SCtrlRange == SCtrlFrom(CtrlRangeInputs)

InitCtl ==
  /\ power_count = 1
  /\ current_mode = 0
  /\ width = 0
  /\ height = 0
  /\ xclk = 1
  /\ reset_gpio \in {0, GPIO_ABSENT}
  /\ dev = DevAfter([a \in Tracked |-> NONE],
                    Writes(ov5647_modes[1].reg_list) \o StreamOffWrites)
  /\ log = <<>>
  /\ ret = 0
  /\ call = NoCall
  /\ run = NoRun
  /\ prev = "other"
  /\ registered = TRUE
  /\ runtime_status = RPM_SUSPENDED
  /\ lock = 0
  /\ task = [t \in Callers |-> NoTask]

NextCtl == SCtrlRange \/ Idle

SpecCtl == InitCtl /\ [][NextCtl]_vars

(***************************************************************************)
(* Properties of mode application, release, streaming and controls.        *)
(***************************************************************************)
(* operations of a first acquire up to the call of __sensor_init *)
PowerOnEntry(rst) ==
  << <<"clk", 0, 1, 0>> >> \o GpioEv(rst, 0) \o Writes(sensor_oe_enable_regs)

(* the operations __sensor_init issued in the most recent call, when that  *)
(* call is a first acquire that reached __sensor_init                      *)
EnteredInit ==
  /\ IsAcquire /\ call.pre = 0
  /\ Len(log) > Len(PowerOnEntry(reset_gpio))
  /\ SubSeq(log, 1, Len(PowerOnEntry(reset_gpio))) = PowerOnEntry(reset_gpio)

InitOps ==
  LET n    == Len(PowerOnEntry(reset_gpio))
      last == IF log[Len(log)] = <<"clk", 0, 0, 0>> THEN Len(log) - 1 ELSE Len(log)
  IN  SubSeq(log, n + 1, last)

(* C11: in __sensor_init a failure of any register read or write is the     *)
(* last operation the call issues and its error is returned.                *)
C11_InitFailFast ==
  EnteredInit =>
    \A i \in 1..Len(InitOps) :
      InitOps[i][4] # 0 => (i = Len(InitOps) /\ ret = InitOps[i][4])

(* C12: a release at power_count 1 returns success whatever fails on the    *)
(* release path.                                                            *)
C12_ReleaseReturnsSuccess == (IsRelease /\ call.pre = 1) => ret >= 0

(* C13: a release at power_count 1 issues the output-disable writes, then   *)
(* the standby read-modify-write, then the clock disable, then the reset    *)
(* assert; clock disable, reset assert and the decrement to 0 happen also   *)
(* when an output-disable or standby operation failed.                      *)
C13_ReleaseOrder ==
  (IsRelease /\ call.pre = 1) =>
    LET g == IF reset_gpio = GPIO_ABSENT THEN 0 ELSE 1
        n == Len(log) - g - 1
        K == {i \in 1..n : log[i][2] # OV5647_SW_STANDBY}
        k == Cardinality(K)
    IN  /\ n >= 1
        /\ log[n + 1] = <<"clk", 0, 0, 0>>
        /\ g = 1 => log[n + 2] = <<"gpio", 0, 1, 0>>
        /\ K = 1..k /\ k <= Len(sensor_oe_disable_regs)
        /\ \A i \in 1..k :
             /\ log[i][1] = "w"
             /\ log[i][2] = sensor_oe_disable_regs[i][1]
             /\ log[i][3] = sensor_oe_disable_regs[i][2]
             /\ log[i][4] # 0 => i = k
        /\ k < Len(sensor_oe_disable_regs) => log[k][4] # 0
        /\ n \in {k + 1, k + 2}
        /\ log[k + 1][1] = "r" /\ log[k + 1][2] = OV5647_SW_STANDBY
        /\ n = k + 2 =>
             /\ log[k + 1][4] = 0
             /\ log[k + 2][1] = "w" /\ log[k + 2][2] = OV5647_SW_STANDBY
        /\ n = k + 1 => log[k + 1][4] # 0
        /\ power_count = 0
        /\ xclk = 0
        /\ reset_gpio \in {1, GPIO_ABSENT}

C13_Witness ==
  /\ IsRelease /\ call.pre = 1 /\ reset_gpio = 1
  /\ log[1][4] # 0
  /\ log[Len(log) - 2] = <<"r", OV5647_SW_STANDBY, NONE, EREMOTEIO>>
  /\ power_count = 0 /\ xclk = 0

(* C14: while powered, a successful stream-on followed immediately by a     *)
(* successful stream-off leaves pad-out = 1, frame-off = 0x0f and the MIPI  *)
(* control register at clock lane gated, bus idle, whatever the streaming   *)
(* state was before.                                                        *)
C14_OnThenOff ==
  (call.op = "s_stream" /\ call.arg = 0 /\ ret >= 0
     /\ prev = "stream_on" /\ power_count >= 1)
  => /\ dev[OV5640_REG_PAD_OUT] = 1
     /\ dev[OV5647_REG_FRAME_OFF_NUMBER] = 15
     /\ dev[OV5647_REG_MIPI_CTRL00] =
          MIPI_CTRL00_CLOCK_LANE_GATE + MIPI_CTRL00_BUS_IDLE
          + MIPI_CTRL00_CLOCK_LANE_DISABLE

C14_Witness ==
  /\ call.op = "s_stream" /\ call.arg = 0 /\ ret >= 0
  /\ prev = "stream_on" /\ power_count >= 1

(* the register writes of lg, in issue order *)
WritesOf(lg) == SelectSeq(lg, LAMBDA e : e[1] = "w")

(* C15: stream-on writes MIPI control, then frame-off = 0, then pad-out =   *)
(* 0, each only after the writes before it completed; the pad is never      *)
(* un-gated by a stream-on whose bus-state write failed or was not issued.  *)
C15_StreamOnOrder ==
  (call.op = "s_stream" /\ call.arg # 0) =>
    LET W     == WritesOf(log)
        order == <<OV5647_REG_MIPI_CTRL00, OV5647_REG_FRAME_OFF_NUMBER,
                   OV5640_REG_PAD_OUT>>
    IN  /\ Len(W) <= 3
        /\ \A i \in 1..Len(W) : W[i][2] = order[i]
        /\ \A i \in 1..(Len(W) - 1) : W[i][4] = 0
        /\ Len(W) >= 1 => W[1][3] = MIPI_CTRL00_LINE_SYNC_ENABLE + MIPI_CTRL00_BUS_IDLE
        /\ Len(W) >= 2 => W[2][3] = 0
        /\ Len(W) = 3 => W[3][3] = 0
        /\ LastWritten(log, OV5640_REG_PAD_OUT, NONE) = 0 =>
             /\ LastWritten(log, OV5647_REG_MIPI_CTRL00, NONE)
                  = MIPI_CTRL00_LINE_SYNC_ENABLE + MIPI_CTRL00_BUS_IDLE
             /\ LastWritten(log, OV5647_REG_FRAME_OFF_NUMBER, NONE) = 0

C15_Witness ==
  /\ call.op = "s_stream" /\ call.arg # 0 /\ ret < 0
  /\ Len(WritesOf(log)) = 2
  /\ WritesOf(log)[2] = <<"w", OV5647_REG_FRAME_OFF_NUMBER, 0, EIO>>

IsCtrl(id) == call.op = "s_ctrl" /\ call.arg[1] = id /\ call.pre >= 1

(* C16: EXPOSURE(v) writes high, middle, low with 4 + 8 + 4 bits of v so    *)
(* that (hi << 12) | (mid << 4) | (lo >> 4) = v; GAIN(g) writes high, low   *)
(* with 2 + 8 bits so that (hi << 8) | lo = g.                              *)
C16_SplitRoundTrip ==
  /\ (IsCtrl(V4L2_CID_EXPOSURE) /\ ret = 0) =>
       /\ Len(log) = 3
       /\ <<log[1][2], log[2][2], log[3][2]>> =
            <<OV5647_REG_EXPOSURE_HI, OV5647_REG_EXPOSURE_MID, OV5647_REG_EXPOSURE_LO>>
       /\ \A i \in 1..3 : log[i][1] = "w"
       /\ log[1][3] \in 0..15 /\ log[2][3] \in 0..255 /\ log[3][3] \in 0..255
       /\ log[3][3] % 16 = 0
       /\ log[1][3] * 4096 + log[2][3] * 16 + log[3][3] \div 16 = call.arg[2]
       /\ call.arg[2] = 4660 => <<log[1][3], log[2][3], log[3][3]>> = <<1, 35, 64>>
  /\ (IsCtrl(V4L2_CID_ANALOGUE_GAIN) /\ ret = 0) =>
       /\ Len(log) = 2
       /\ <<log[1][2], log[2][2]>> = <<OV5647_REG_GAIN_HI, OV5647_REG_GAIN_LO>>
       /\ \A i \in 1..2 : log[i][1] = "w"
       /\ log[1][3] \in 0..3 /\ log[2][3] \in 0..255
       /\ log[1][3] * 256 + log[2][3] = call.arg[2]
       /\ call.arg[2] = 683 => <<log[1][3], log[2][3]>> = <<2, 171>>

C16_Witness ==
  /\ IsCtrl(V4L2_CID_EXPOSURE) /\ ret = 0 /\ call.arg[2] = 65535
  /\ log[3] = <<"w", OV5647_REG_EXPOSURE_LO, 240, 0>>

(* C17: AUTOGAIN writes back the byte read in the same call with only bit   *)
(* 1 changed (0 when enabled, 1 when disabled); EXPOSURE_AUTO the byte read *)
(* with only bit 0 changed (0 for auto, 1 for manual).                      *)
C17_OnlyOwnBit ==
  /\ (IsCtrl(V4L2_CID_AUTOGAIN) /\ Len(log) = 2) =>
       /\ log[1][1] = "r" /\ log[1][2] = OV5647_REG_AEC_AGC /\ log[1][4] = 0
       /\ log[2][1] = "w" /\ log[2][2] = OV5647_REG_AEC_AGC
       /\ (log[2][3] \div 2) % 2 = (IF call.arg[2] # 0 THEN 0 ELSE 1)
       /\ log[2][3] % 2 = log[1][3] % 2
       /\ log[2][3] \div 4 = log[1][3] \div 4
  /\ (IsCtrl(V4L2_CID_EXPOSURE_AUTO) /\ Len(log) = 2) =>
       /\ log[1][1] = "r" /\ log[1][2] = OV5647_REG_AEC_AGC /\ log[1][4] = 0
       /\ log[2][1] = "w" /\ log[2][2] = OV5647_REG_AEC_AGC
       /\ log[2][3] % 2 = (IF call.arg[2] = V4L2_EXPOSURE_AUTO THEN 0 ELSE 1)
       /\ log[2][3] \div 2 = log[1][3] \div 2
  /\ (IsCtrl(V4L2_CID_AUTOGAIN) \/ IsCtrl(V4L2_CID_EXPOSURE_AUTO)) =>
       (ret = 0 => Len(log) = 2)

C17_Witness ==
  /\ IsCtrl(V4L2_CID_AUTOGAIN) /\ call.arg[2] = 1
  /\ log = << <<"r", OV5647_REG_AEC_AGC, 255, 0>>,
              <<"w", OV5647_REG_AEC_AGC, 253, 0>> >>

(* C18: while powered, a failing register read or write of a control        *)
(* application is the last operation of the call and its error is returned. *)
C18_CtrlFailFast ==
  (call.op = "s_ctrl" /\ call.pre >= 1) =>
    /\ \A i \in 1..Len(log) :
         log[i][4] # 0 => (i = Len(log) /\ ret = log[i][4])
    /\ Clean(log) => ret = 0

C18_Witness ==
  /\ IsCtrl(V4L2_CID_EXPOSURE) /\ ret = EIO
  /\ Len(log) = 2 /\ log[1][4] = 0 /\ log[2][2] = OV5647_REG_EXPOSURE_MID

(***************************************************************************)
(* Attach: ov5647_probe with ov5647_detect.                                *)
(***************************************************************************)
ENODEV == -19
ENOMEM == -12

OV5647_CHIPID_H == 86
OV5647_CHIPID_L == 71

(* Bytes a chip-ID register read can deliver: the two expected bytes and   *)
(* a foreign one.                                                          *)
ChipIdVals == {OV5647_CHIPID_H, OV5647_CHIPID_L, 85}

(* ov5647_read of a chip-ID register *)
ov5647_read_id(c, reg) ==
  {Issue(c, <<"r", reg, v, 0>>, I2C_READ_LEN, v) : v \in ChipIdVals}
  \cup (IF CanFault(c)
        THEN {Issue(c, <<"r", reg, NONE, EREMOTEIO>>, EREMOTEIO, c.val)}
        ELSE {})

id_mismatch_ignored(read, expected) == FALSE

id_mismatch(read, expected) == read # expected

ov5647_detect(c) ==
  LET chk(d, expected) ==
        IF d.ret < 0 THEN d
        ELSE IF id_mismatch(d.val, expected) THEN [d EXCEPT !.ret = ENODEV]
        ELSE d
      rh(d)  == {chk(e, OV5647_CHIPID_H) : e \in ov5647_read_id(d, OV5647_REG_CHIPID_H)}
      rl(d)  == {chk(e, OV5647_CHIPID_L) : e \in ov5647_read_id(d, OV5647_REG_CHIPID_L)}
      fin(d) == ov5647_write(d, OV5647_SW_RESET, 0)
  IN  Then(Then(Then(ov5647_write(c, OV5647_SW_RESET, 1), rh), rl), fin)

(* __ov5647_power_on: clock first, then reset deassert *)
ov5647_power_on(c) ==
  {IF d.ret < 0 THEN d ELSE [gpiod_set_value_cansleep(d, 0) EXCEPT !.ret = 0] :
   d \in clk_prepare_enable(c)}

(* __ov5647_power_off: reset assert, then clock disable *)
ov5647_power_off(c) ==
  clk_disable_unprepare(gpiod_set_value_cansleep(c, 1))

(* devm_gpiod_get_optional(dev, "reset", GPIOD_OUT_HIGH) *)
devm_gpiod_get_optional(c) ==
  IF c.reset = GPIO_ABSENT THEN c ELSE [c EXCEPT !.reset = 1]

(* Steps of ov5647_probe that can fail without the transport: the xclk     *)
(* lookup and rate check, ov5647_init_controls, media_entity_pads_init,    *)
(* v4l2_async_register_subdev.                                             *)
ProbeFailures == {"none", "xclk", "init_controls", "pads_init", "register"}

(* An outcome is the final context and whether the subdev got registered.  *)
(* After a successful registration pm_runtime_idle suspends the device     *)
(* through ov5647_runtime_suspend.                                         *)
ov5647_probe(c, fail) ==
  LET out(d, r, reg) == [c |-> [d EXCEPT !.ret = r], registered |-> reg]
      c1 == devm_gpiod_get_optional(c)
      det(d) ==
        {IF e.ret < 0 THEN out(ov5647_power_off(e), e.ret, FALSE)
         ELSE IF fail = "register"
         THEN out(ov5647_power_off(e), ENOMEM, FALSE)
         ELSE out(ov5647_power_off(e), 0, TRUE) :
         e \in ov5647_detect(d)}
  IN  IF fail = "xclk" THEN {out(c, EINVAL, FALSE)}
      ELSE IF fail \in {"init_controls", "pads_init"}
      THEN {out(c1, ENOMEM, FALSE)}
      ELSE UNION {IF d.ret < 0 THEN {out(d, d.ret, FALSE)} ELSE det(d) :
                  d \in ov5647_power_on(c1)}

(* probe of an unbound device *)
Probe ==
  /\ call = NoCall
  /\ ~registered
  /\ \E fail \in ProbeFailures :
       \E o \in ov5647_probe(NewCtx(xclk, reset_gpio), fail) :
         /\ registered' = o.registered
         /\ xclk' = o.c.xclk
         /\ reset_gpio' = o.c.reset
         /\ log' = o.c.log
         /\ ret' = o.c.ret
         /\ dev' = DevAfter(dev, o.c.log)
         /\ call' = [op |-> "probe", arg |-> fail, pre |-> 0]
  /\ power_count' = 0
  /\ current_mode' = 0
  /\ width' = 0
  /\ height' = 0
  /\ run' = NoRun
  /\ runtime_status' = RPM_SUSPENDED
  /\ UNCHANGED <<prev, lock, task>>

(* The device before its first probe: the reset line, when there is one,   *)
(* at either level.                                                        *)
InitProbe ==
  /\ power_count = 0
  /\ current_mode = 0
  /\ width = 0
  /\ height = 0
  /\ xclk = 0
  /\ reset_gpio \in {0, 1, GPIO_ABSENT}
  /\ dev = [a \in Tracked |-> NONE]
  /\ log = <<>>
  /\ ret = 0
  /\ call = NoCall
  /\ run = NoRun
  /\ prev = "other"
  /\ registered = FALSE
  /\ runtime_status = RPM_SUSPENDED
  /\ lock = 0
  /\ task = [t \in Callers |-> NoTask]

NextProbe == Probe \/ Next

SpecProbe == InitProbe /\ [][NextProbe]_vars

(* the most recent call is a probe in which a chip-ID read completed with  *)
(* a byte other than the expected one                                      *)
ChipIdMismatch ==
  /\ call.op = "probe"
  /\ \E i \in 1..Len(log) :
       /\ log[i][1] = "r" /\ log[i][4] = 0
       /\ \/ log[i][2] = OV5647_REG_CHIPID_H /\ log[i][3] # 86
          \/ log[i][2] = OV5647_REG_CHIPID_L /\ log[i][3] # 71

(* C19: a probe in which a chip-ID byte differs from 0x56 / 0x47 fails with *)
(* -ENODEV, leaves the device unregistered and powered off (clock disabled, *)
(* reset asserted) and writes no register other than the software reset.    *)
C19_MismatchFailsAttach ==
  ChipIdMismatch =>
    /\ ret = ENODEV
    /\ ~registered
    /\ xclk = 0
    /\ reset_gpio \in {1, GPIO_ABSENT}
    /\ \A i \in 1..Len(log) :
         log[i][1] = "w" => (i = 2 \/ i = 3) /\ log[i] = <<"w", OV5647_SW_RESET, 1, 0>>
    /\ \E i \in 1..Len(log) : log[i] = <<"clk", 0, 0, 0>>

C19_Witness ==
  /\ ChipIdMismatch
  /\ reset_gpio = 1
  /\ \E i \in 1..Len(log) : log[i] = <<"r", OV5647_REG_CHIPID_H, 85, 0>>

(***************************************************************************)
(* Concurrent callers of s_power.  A call is mutex_lock, the branch of     *)
(* ov5647_sensor_power chosen from power_count, its operations one at a    *)
(* time on the bus, the update of power_count, mutex_unlock.  The clock    *)
(* and the reset line follow every operation; log and dev record           *)
(* sequential calls only and stay as they are.                             *)
(***************************************************************************)
(* the state of the sequential entry points *)
seqvars == <<power_count, current_mode, width, height, xclk, reset_gpio, dev,
             log, ret, call, run, prev, registered, runtime_status>>

(* what a finished call has issued *)
KindOf(lg, m, rst) ==
  IF lg = <<>> THEN "none"
  ELSE IF IsPowerOnLog(lg, m, rst) THEN "power_on"
  ELSE IF IsPowerOffLog(lg, rst) THEN "power_off"
  ELSE "partial"

(* The context of a concurrent call: the transport fails at most once in   *)
(* one call.                                                               *)
NewCtxOneFault(clk, rst) == [NewCtx(clk, rst) EXCEPT !.nf = MaxFaults - 1]

(* s_power(on) is called by caller t *)
Call(t, on) ==
  /\ registered
  /\ call = NoCall
  /\ task[t].pc = "idle"
  /\ on # 0 => power_count < MaxPowerCount
  /\ on = 0 => power_count > -MaxUnderflow
  /\ task' = [u \in Callers |->
                IF u = t
                THEN [NoTask EXCEPT !.pc = "lock", !.op = "s_power", !.on = on,
                                    !.at = power_count,
                                    !.peer = \E v \in Callers \ {t} :
                                               /\ task[v].pc \in {"lock", "body", "emit"}
                                               /\ task[v].on # 0]
                ELSE [task[u] EXCEPT !.peer = FALSE]]
  /\ UNCHANGED <<seqvars, lock>>

mutex_free_always(l) == TRUE

mutex_free(l) == l = 0

(* mutex_lock(&ov5647->lock) *)
MutexLock(t) ==
  /\ task[t].pc = "lock"
  /\ mutex_free(lock)
  /\ lock' = t
  /\ task' = [task EXCEPT ![t].pc = "body"]
  /\ UNCHANGED seqvars

(* the branch of ov5647_sensor_power is chosen from power_count *)
Branch(t) ==
  /\ task[t].pc = "body"
  /\ task[t].op = "s_power"
  /\ \E o \in ov5647_sensor_power(task[t].on, power_count,
                                  NewCtxOneFault(xclk, reset_gpio), current_mode) :
       task' = [task EXCEPT ![t].pc = "emit",
                            ![t].plan = o.c.log,
                            ![t].pos = 0,
                            ![t].ret = o.c.ret,
                            ![t].delta = o.power_count - power_count,
                            ![t].kind = KindOf(o.c.log, current_mode, reset_gpio)]
  /\ UNCHANGED <<seqvars, lock>>

(* the next operation of the branch goes on the bus *)
Emit(t) ==
  /\ task[t].pc = "emit"
  /\ task[t].op = "s_power"
  /\ task[t].pos < Len(task[t].plan)
  /\ LET e == task[t].plan[task[t].pos + 1]
     IN  /\ xclk' = IF e[1] = "clk" /\ e[4] = 0
                    THEN (IF e[3] = 1 THEN xclk + 1 ELSE xclk - 1)
                    ELSE xclk
         /\ reset_gpio' = IF e[1] = "gpio" THEN e[3] ELSE reset_gpio
  /\ task' = [task EXCEPT ![t].pos = @ + 1]
  /\ UNCHANGED <<power_count, current_mode, width, height, dev, log, ret, call,
                 run, prev, registered, runtime_status, lock>>

(* power_count += on ? 1 : -1, skipped by the error exits *)
Update(t) ==
  /\ task[t].pc = "emit"
  /\ task[t].op = "s_power"
  /\ task[t].pos = Len(task[t].plan)
  /\ power_count' = power_count + task[t].delta
  /\ task' = [task EXCEPT ![t].pc = "unlock"]
  /\ UNCHANGED <<current_mode, width, height, xclk, reset_gpio, dev, log, ret,
                 call, run, prev, registered, runtime_status, lock>>

MutexUnlock_on_success(t) ==
  /\ task[t].pc = "unlock"
  /\ lock' = IF task[t].ret < 0 THEN lock ELSE 0
  /\ task' = [task EXCEPT ![t].pc = "done", ![t].plan = <<>>, ![t].pos = 0]
  /\ UNCHANGED seqvars

(* mutex_unlock(&ov5647->lock) *)
MutexUnlock(t) ==
  /\ task[t].pc = "unlock"
  /\ lock' = 0
  /\ task' = [task EXCEPT ![t].pc = "done", ![t].plan = <<>>, ![t].pos = 0]
  /\ UNCHANGED seqvars

(* the caller takes the result *)
Return(t) ==
  /\ task[t].pc = "done"
  /\ task' = [task EXCEPT ![t] = NoTask]
  /\ UNCHANGED <<seqvars, lock>>

NextConc ==
  \E t \in Callers :
    \/ Call(t, 1) \/ Call(t, 0)
    \/ MutexLock(t) \/ Branch(t) \/ Emit(t) \/ Update(t) \/ MutexUnlock(t)
    \/ Return(t)

SpecConc == Init /\ [][NextConc]_vars

(* caller t is between mutex_lock and mutex_unlock *)
InBody(t) == task[t].pc \in {"body", "emit", "unlock"}

(* caller t has put some but not all operations of its branch on the bus *)
MidSequence(t) ==
  task[t].pc = "emit" /\ 0 < task[t].pos /\ task[t].pos < Len(task[t].plan)

(* both callers have finished an acquire that they called at power_count 0 *)
(* and that succeeded, and one of them called while the other's acquire    *)
(* had not yet updated power_count                                         *)
BothAcquired ==
  /\ \A t \in Callers :
       /\ task[t].pc = "done" /\ task[t].on # 0 /\ task[t].at = 0
       /\ task[t].ret >= 0
  /\ \E t \in Callers : task[t].peer

(* C20: the bodies of concurrent s_power calls run one at a time under the  *)
(* device lock, the operations of two calls are never interleaved on the    *)
(* bus, and two concurrent acquires that both start at power_count 0 and    *)
(* meet no fault run one power-on sequence and end with power_count 2.      *)
C20_Serialized ==
  /\ \A t \in Callers : InBody(t) => lock = t
  /\ \A t, u \in Callers : (InBody(t) /\ InBody(u)) => t = u
  /\ \A t, u \in Callers : (MidSequence(t) /\ MidSequence(u)) => t = u
  /\ BothAcquired =>
       /\ power_count = 2
       /\ xclk = 1
       /\ \E t \in Callers :
            /\ task[t].kind = "power_on"
            /\ \A u \in Callers \ {t} : task[u].kind = "none"

C20_Witness ==
  /\ BothAcquired
  /\ power_count = 2
  /\ task[2].kind = "power_on"

(***************************************************************************)
(* Concurrent callers of the format entry points: set_fmt, get_fmt and     *)
(* get_selection on the active format.  A step is one statement that       *)
(* touches shared state: the load of current_mode, mutex_lock, the body    *)
(* under the lock, mutex_unlock.                                           *)
(***************************************************************************)
OV5647_NATIVE_WIDTH == 2624
OV5647_NATIVE_HEIGHT == 1956

V4L2_SUBDEV_FORMAT_TRY == "V4L2_SUBDEV_FORMAT_TRY"
V4L2_SUBDEV_FORMAT_ACTIVE == "V4L2_SUBDEV_FORMAT_ACTIVE"

V4L2_SEL_TGT_CROP == "V4L2_SEL_TGT_CROP"
V4L2_SEL_TGT_CROP_DEFAULT == "V4L2_SEL_TGT_CROP_DEFAULT"
V4L2_SEL_TGT_CROP_BOUNDS == "V4L2_SEL_TGT_CROP_BOUNDS"
V4L2_SEL_TGT_NATIVE_SIZE == "V4L2_SEL_TGT_NATIVE_SIZE"
V4L2_SEL_TGT_COMPOSE == "V4L2_SEL_TGT_COMPOSE"

SelTargets ==
  {V4L2_SEL_TGT_CROP, V4L2_SEL_TGT_CROP_DEFAULT, V4L2_SEL_TGT_CROP_BOUNDS,
   V4L2_SEL_TGT_NATIVE_SIZE, V4L2_SEL_TGT_COMPOSE}

ov5647_get_selection_native_crop(mode_index, target) ==
  IF target \in {V4L2_SEL_TGT_CROP, V4L2_SEL_TGT_NATIVE_SIZE}
  THEN [ret |-> 0, left |-> 0, top |-> 0, width |-> OV5647_NATIVE_WIDTH,
        height |-> OV5647_NATIVE_HEIGHT]
  ELSE [ret |-> EINVAL, left |-> NONE, top |-> NONE, width |-> NONE,
        height |-> NONE]

(* the switch of ov5647_get_selection for the mode at C index mode_index;  *)
(* on -EINVAL the rectangle of the caller is left as it was                *)
ov5647_get_selection(mode_index, target) ==
  LET mode == ov5647_modes[mode_index + 1]
  IN  IF target \in {V4L2_SEL_TGT_CROP, V4L2_SEL_TGT_CROP_DEFAULT,
                     V4L2_SEL_TGT_CROP_BOUNDS}
      THEN [ret |-> 0, left |-> 0, top |-> 0, width |-> mode.width,
            height |-> mode.height]
      ELSE IF target = V4L2_SEL_TGT_NATIVE_SIZE
      THEN [ret |-> 0, left |-> 0, top |-> 0, width |-> OV5647_NATIVE_WIDTH,
            height |-> OV5647_NATIVE_HEIGHT]
      ELSE [ret |-> EINVAL, left |-> NONE, top |-> NONE, width |-> NONE,
            height |-> NONE]

(* caller t enters the entry point op with argument arg at position pc *)
Enter(t, op, arg, pc) ==
  /\ registered
  /\ call = NoCall
  /\ task[t].pc = "idle"
  /\ task' = [task EXCEPT ![t] = [NoTask EXCEPT !.pc = pc, !.op = op,
                                                !.arg = arg,
                                                !.at = power_count]]
  /\ UNCHANGED <<seqvars, lock>>

SetFmtCall(t) == \E req \in ModeRequests : Enter(t, "set_fmt", req, "lock")

GetFmtCall(t) == Enter(t, "get_fmt", 0, "load")

GetSelectionCall(t) ==
  \E target \in SelTargets : Enter(t, "get_selection", target, "load")

(* mode = &ov5647_modes[ov5647->current_mode] in the declarations of       *)
(* get_fmt (before its mutex_lock) and of get_selection (which takes no    *)
(* lock); get_selection then runs its switch and returns                   *)
LoadMode(t) ==
  /\ task[t].pc = "load"
  /\ task[t].op \in {"get_fmt", "get_selection"}
  /\ task' = [task EXCEPT
                ![t].mode = current_mode,
                ![t].bare = (lock # t),
                ![t].ret = IF task[t].op = "get_selection"
                           THEN ov5647_get_selection(current_mode, task[t].arg).ret
                           ELSE 0,
                ![t].pc = IF task[t].op = "get_fmt" THEN "lock" ELSE "done"]
  /\ UNCHANGED <<seqvars, lock>>

(* get_fmt under the lock: the format of the mode loaded before is copied  *)
(* to the caller                                                           *)
FillFmt(t) ==
  /\ task[t].pc = "body"
  /\ task[t].op = "get_fmt"
  /\ task[t].which = V4L2_SUBDEV_FORMAT_ACTIVE
  /\ task' = [task EXCEPT ![t].pc = "unlock", ![t].ret = 0]
  /\ UNCHANGED <<seqvars, lock>>

(* set_fmt under the lock: the selection loop and the stores to            *)
(* current_mode, width and height                                          *)
StoreMode(t) ==
  /\ task[t].pc = "body"
  /\ task[t].op = "set_fmt"
  /\ task[t].which = V4L2_SUBDEV_FORMAT_ACTIVE
  /\ LET req == task[t].arg
         best_mode == find_best_mode(req[1], req[2], req[3])
     IN  /\ current_mode' = best_mode
         /\ width' = ov5647_modes[best_mode + 1].width
         /\ height' = ov5647_modes[best_mode + 1].height
         /\ task' = [task EXCEPT ![t].pc = "unlock", ![t].ret = 0,
                                 ![t].mode = best_mode,
                                 ![t].bare = (lock # t)]
  /\ UNCHANGED <<power_count, xclk, reset_gpio, dev, log, ret, call, run, prev,
                 registered, runtime_status, lock>>

NextFmt ==
  \E t \in Callers :
    \/ SetFmtCall(t) \/ GetFmtCall(t) \/ GetSelectionCall(t)
    \/ LoadMode(t) \/ MutexLock(t) \/ FillFmt(t) \/ StoreMode(t)
    \/ MutexUnlock(t) \/ Return(t)

SpecFmt == Init /\ [][NextFmt]_vars

(* C21: every load and store of current_mode is made by a caller that      *)
(* holds the device lock, and the format get_fmt reports under the lock is *)
(* the one of current_mode at that moment.                                 *)
C21_ModeUnderLock ==
  /\ \A t \in Callers : ~task[t].bare
  /\ \A t \in Callers :
       (task[t].op = "get_fmt" /\ task[t].pc = "unlock")
         => task[t].mode = current_mode

(***************************************************************************)
(* s_stream and s_ctrl racing with the release of a powered sensor.  The   *)
(* sensor is powered and idle (InitCtl); caller 1 calls s_power(0),        *)
(* caller 2 calls s_stream (which takes no lock) or s_ctrl (called by the  *)
(* control framework with handler->lock, the device lock, held).  The      *)
(* operations of a call go on the bus one at a time.                       *)
(***************************************************************************)
(* the release of caller u has put its first power-off operation on the bus *)
PowerOffUnderWay(u) ==
  /\ task[u].op = "s_power"
  /\ task[u].on = 0
  /\ task[u].pc = "emit"
  /\ task[u].pos >= 1

(* power phase of the sensor as caller t puts an operation on the bus:     *)
(* clock disabled, power-off sequence of another caller under way, or on   *)
Phase(t) ==
  IF xclk = 0 THEN "off"
  ELSE IF \E u \in Callers \ {t} : PowerOffUnderWay(u) THEN "mid"
  ELSE "on"

(* one control and value per control id *)
RaceCtrlInputs ==
  {<<V4L2_CID_AUTO_WHITE_BALANCE, 1>>, <<V4L2_CID_AUTOGAIN, 1>>,
   <<V4L2_CID_EXPOSURE_AUTO, V4L2_EXPOSURE_MANUAL>>,
   <<V4L2_CID_EXPOSURE, 4660>>, <<V4L2_CID_ANALOGUE_GAIN, 683>>}

StreamCall(t, enable) == Enter(t, "s_stream", enable, "start")

CtrlCall(t) == \E in \in RaceCtrlInputs : Enter(t, "s_ctrl", in, "lock")

(* ov5647_s_stream starts: no lock is taken, power_count is not read *)
StreamBranch(t) ==
  /\ task[t].pc = "start"
  /\ task[t].op = "s_stream"
  /\ \E d \in ov5647_s_stream(NewCtxOneFault(xclk, reset_gpio), task[t].arg) :
       task' = [task EXCEPT ![t].pc = "issue", ![t].plan = d.log,
                            ![t].pos = 0, ![t].ret = d.ret]
  /\ UNCHANGED <<seqvars, lock>>

(* ov5647_s_ctrl starts under handler->lock: the power_count test and the  *)
(* switch on the control id                                                *)
CtrlBranch(t) ==
  /\ task[t].pc = "body"
  /\ task[t].op = "s_ctrl"
  /\ \E d \in ov5647_s_ctrl(NewCtxOneFault(xclk, reset_gpio), power_count,
                            task[t].arg[1], task[t].arg[2]) :
       task' = [task EXCEPT ![t].pc = "issue", ![t].plan = d.log,
                            ![t].pos = 0, ![t].ret = d.ret]
  /\ UNCHANGED <<seqvars, lock>>

(* the next register operation of s_stream or s_ctrl goes on the bus *)
Transfer(t) ==
  /\ task[t].pc = "issue"
  /\ task[t].pos < Len(task[t].plan)
  /\ task' = [task EXCEPT ![t].pos = @ + 1,
                          ![t].seen = Append(@, Phase(t))]
  /\ UNCHANGED <<seqvars, lock>>

(* the entry point returns; s_ctrl returns to the control framework, which *)
(* unlocks handler->lock                                                   *)
Finish(t) ==
  /\ task[t].pc = "issue"
  /\ task[t].pos = Len(task[t].plan)
  /\ task' = [task EXCEPT ![t].pc = IF task[t].op = "s_ctrl"
                                    THEN "unlock" ELSE "done"]
  /\ UNCHANGED <<seqvars, lock>>

NextRace ==
  \/ Call(1, 0) \/ Branch(1) \/ Emit(1) \/ Update(1)
  \/ StreamCall(2, 1) \/ StreamCall(2, 0) \/ StreamBranch(2)
  \/ CtrlCall(2) \/ CtrlBranch(2)
  \/ Transfer(2) \/ Finish(2)
  \/ \E t \in Callers : MutexLock(t) \/ MutexUnlock(t) \/ Return(t)

SpecRace == InitCtl /\ [][NextRace]_vars

(* the register writes of caller t that went on the bus in phase ph *)
WritesIn(t, ph) ==
  {i \in 1..Len(task[t].seen) :
     task[t].plan[i][1] = "w" /\ task[t].seen[i] = ph}

(* C22: a set_streaming call made while the device is powered issues no    *)
(* register write between the first power-off operation of a release and   *)
(* its clock disable, and none after the clock was disabled.               *)
C22_StreamNotInPowerOff ==
  \A t \in Callers :
    (task[t].op = "s_stream" /\ task[t].at >= 1)
      => (WritesIn(t, "mid") = {} /\ WritesIn(t, "off") = {})

(* the current call of caller u is a release that found power_count 1 and  *)
(* runs the power-off sequence                                             *)
PowersOff(u) ==
  /\ task[u].op = "s_power"
  /\ task[u].on = 0
  /\ task[u].kind \in {"power_off", "partial"}

(* the operations of caller t that went on the bus with the clock disabled *)
OffOps(t) == {i \in 1..Len(task[t].seen) : task[t].seen[i] = "off"}

(* C23: a control application that overlaps a release which powers the    *)
(* device off puts at most one operation on the bus after the clock was    *)
(* disabled, for every control, and when one of its operations failed its  *)
(* return value is that failure.                                           *)
C23_CtrlRace ==
  \A t \in Callers :
    task[t].op = "s_ctrl"
      => /\ (\E u \in Callers : PowersOff(u)) => Cardinality(OffOps(t)) <= 1
         /\ (task[t].pc = "unlock"
             /\ \E i \in 1..Len(task[t].plan) : task[t].plan[i][4] # 0)
              => task[t].ret < 0

(* an EXPOSURE application called while the device was powered has         *)
(* returned after the release it overlapped has powered the device off     *)
C23_Witness ==
  /\ task[2].op = "s_ctrl"
  /\ task[2].arg[1] = V4L2_CID_EXPOSURE
  /\ task[2].at = 1
  /\ task[2].pc = "done"
  /\ task[2].seen = <<>>
  /\ PowersOff(1)
  /\ task[1].pc = "done"
  /\ xclk = 0

(***************************************************************************)
(* Mode application followed over power cycles and format changes: the     *)
(* output size the last mode sequence has programmed into the sensor is    *)
(* tracked next to the registers of Tracked.                               *)
(***************************************************************************)
(* X output size: 0x3808 high byte, 0x3809 low byte; Y output size: 0x380a *)
(* high byte, 0x380b low byte                                              *)
X_OUTPUT_SIZE == <<14344, 14345>>
Y_OUTPUT_SIZE == <<14346, 14347>>

OutputSizeRegs ==
  {X_OUTPUT_SIZE[1], X_OUTPUT_SIZE[2], Y_OUTPUT_SIZE[1], Y_OUTPUT_SIZE[2]}

(* the 16-bit size held by the register pair r of the sensor *)
ProgrammedSize(d, r) == d[r[1]] * 256 + d[r[2]]

InitApply ==
  /\ power_count = 0
  /\ current_mode = 0
  /\ width = 0
  /\ height = 0
  /\ xclk = 0
  /\ reset_gpio \in {1, GPIO_ABSENT}
  /\ dev = [a \in Tracked \cup OutputSizeRegs |-> NONE]
  /\ log = <<>>
  /\ ret = 0
  /\ call = NoCall
  /\ run = NoRun
  /\ prev = "other"
  /\ registered = TRUE
  /\ runtime_status = RPM_SUSPENDED
  /\ lock = 0
  /\ task = [t \in Callers |-> NoTask]

NextApply == Acquire \/ Release \/ SetFmtMode \/ Idle

SpecApply == InitApply /\ [][NextApply]_vars

(* C24: whenever the device is powered and no call is in progress, the     *)
(* sensor is programmed with the mode sequence of the catalog entry at     *)
(* current_mode: the output size in its registers is that entry's size.    *)
C24_AppliedIsSelected ==
  (power_count > 0 /\ call = NoCall)
    => /\ ProgrammedSize(dev, X_OUTPUT_SIZE) = ov5647_modes[current_mode + 1].width
       /\ ProgrammedSize(dev, Y_OUTPUT_SIZE) = ov5647_modes[current_mode + 1].height

(***************************************************************************)
(* Frame-size enumeration: ov5647_enum_frame_size on every index up to     *)
(* MaxEnumIndex and every format code of SelCodes.                         *)
(***************************************************************************)
MaxEnumIndex == 7

EnumIndices == 0..MaxEnumIndex

(* fse is struct v4l2_subdev_frame_size_enum; index is the C index *)
ov5647_enum_frame_size(fse) ==
  IF fse.index >= OV5647_NUM_MODES THEN [ret |-> EINVAL, fse |-> fse]
  ELSE IF fse.code # ov5647_modes[fse.index + 1].mbus_code
  THEN [ret |-> EINVAL, fse |-> fse]
  ELSE [ret |-> 0,
        fse |-> [fse EXCEPT !.min_width = ov5647_modes[fse.index + 1].width,
                            !.max_width = ov5647_modes[fse.index + 1].width,
                            !.min_height = ov5647_modes[fse.index + 1].height,
                            !.max_height = ov5647_modes[fse.index + 1].height]]

(* the request of an enumerating caller: sizes zeroed *)
EnumRequest(index, code) ==
  [index |-> index, code |-> code, min_width |-> 0, max_width |-> 0,
   min_height |-> 0, max_height |-> 0]

(* enum_frame_size; the call record keeps the struct as the call left it *)
EnumFrameSize ==
  /\ call = NoCall
  /\ registered
  /\ \E index \in EnumIndices, code \in SelCodes :
       LET r == ov5647_enum_frame_size(EnumRequest(index, code))
       IN  /\ ret' = r.ret
           /\ call' = [op |-> "enum_frame_size", arg |-> r.fse,
                       pre |-> power_count]
  /\ log' = <<>>
  /\ run' = NoRun
  /\ UNCHANGED <<power_count, current_mode, width, height, xclk, reset_gpio,
                 dev, prev, registered, runtime_status, lock, task>>

NextEnum == EnumFrameSize \/ SetFmtMode \/ Idle

SpecEnum == Init /\ [][NextEnum]_vars

(* the (format, width, height) tuple a successful enumeration reports *)
Reported(fse) == <<fse.code, fse.max_width, fse.max_height>>

(* C25: the tuple a successful enumeration reports is reported at no other *)
(* index, and every (format, width, height) of the mode table is reported  *)
(* at some index for its format.                                           *)
C25_EnumDistinct ==
  /\ (call.op = "enum_frame_size" /\ ret = 0)
       => \A j \in EnumIndices \ {call.arg.index} :
            LET r == ov5647_enum_frame_size(EnumRequest(j, call.arg.code))
            IN  r.ret = 0 => Reported(r.fse) # Reported(call.arg)
  /\ \A i \in 1..OV5647_NUM_MODES :
       \E j \in EnumIndices :
         LET r == ov5647_enum_frame_size(
                    EnumRequest(j, ov5647_modes[i].mbus_code))
         IN  /\ r.ret = 0
             /\ Reported(r.fse) = <<ov5647_modes[i].mbus_code,
                                    ov5647_modes[i].width,
                                    ov5647_modes[i].height>>

(***************************************************************************)
(* Properties of power-on retry, power-on order and mode application.      *)
(***************************************************************************)
(* C26: the acquire that directly follows an acquire whose power-on failed *)
(* finds power_count 0 and runs the power-on from its first operation, the *)
(* clock enable; when no operation of it fails it runs the complete        *)
(* power-on sequence, returns success and leaves power_count 1.            *)
C26_RetryRunsFullPowerOn ==
  (IsAcquire /\ prev = "acquire_failed") =>
    /\ call.pre = 0
    /\ log # <<>>
    /\ log[1][1] = "clk" /\ log[1][3] = 1
    /\ Clean(log) =>
         /\ IsPowerOnLog(log, current_mode, reset_gpio)
         /\ ret >= 0
         /\ power_count = 1
         /\ xclk = 1

C26_Witness ==
  /\ IsAcquire /\ prev = "acquire_failed"
  /\ Clean(log)
  /\ power_count = 1
  /\ Len(log) > Len(PowerOnHead(current_mode, reset_gpio))

(* clock enable, reset deassert (when the GPIO exists), output-enable      *)
(* writes: the operations of a power-on before the mode is applied         *)
PowerOnPreamble(rst) ==
  << <<"clk", 0, 1, 0>> >> \o GpioEv(rst, 0) \o Writes(sensor_oe_enable_regs)

IsRegOp(e) == e[1] \in {"r", "w"}

(* C27: an acquire at power_count 0 issues, in this order, the clock       *)
(* enable, the reset deassert when a reset line exists, and the three      *)
(* output-enable writes; no register read or write precedes the clock      *)
(* enable and the reset deassert; a failed step is followed only by the    *)
(* clock disable (nothing after a failed clock enable), so the mode        *)
(* sequence starts only after all three output-enable writes completed.    *)
C27_PowerOnOrder ==
  (IsAcquire /\ call.pre = 0) =>
    LET pre == PowerOnPreamble(reset_gpio)
        n   == Len(pre)
        k   == IF Len(log) < n THEN Len(log) ELSE n
    IN  /\ log # <<>>
        /\ \A i \in 1..k :
             (\A j \in 1..(i - 1) : log[j][4] = 0)
               => /\ log[i][1] = pre[i][1]
                  /\ log[i][2] = pre[i][2]
                  /\ log[i][3] = pre[i][3]
        /\ log[1][4] # 0 => Len(log) = 1
        /\ \A i \in 2..k :
             log[i][4] # 0 => (Len(log) = i + 1 /\ log[i + 1] = <<"clk", 0, 0, 0>>)
        /\ \A i \in 1..Len(log) :
             IsRegOp(log[i]) => i > 1 + Len(GpioEv(reset_gpio, 0))
        /\ \A i \in (n + 1)..Len(log) :
             IsRegOp(log[i]) => SubSeq(log, 1, n) = pre
        /\ (Len(log) >= n /\ SubSeq(log, 1, n) = pre)
             => /\ Len(log) > n
                /\ log[n + 1] = <<"r", OV5647_SW_STANDBY, NONE, log[n + 1][4]>>

(* a power-on with a reset line that reached the mode sequence *)
C27_Witness ==
  /\ IsAcquire /\ call.pre = 0
  /\ reset_gpio = 0
  /\ Len(log) > Len(PowerOnPreamble(reset_gpio)) + 2
  /\ log[2] = <<"gpio", 0, 0, 0>>

(* the operations of a __sensor_init for the mode at C index m in which    *)
(* the channel register was read as v, the standby register as s, and the  *)
(* read-back of MIPI_CTRL00 ended with e                                   *)
InitSteps(m, v, s, e) ==
  << <<"r", OV5647_SW_STANDBY, NONE, 0>> >>
  \o Writes(ov5647_modes[m + 1].reg_list)
  \o << <<"r", OV5647_REG_MIPI_CTRL00, NONE, e>>,
        <<"r", OV5647_REG_MIPI_CTRL14, v, 0>>,
        <<"w", OV5647_REG_MIPI_CTRL14, v % 64, 0>>,
        <<"r", OV5647_SW_STANDBY, s, 0>> >>
  \o (IF s % 2 = 0 THEN << <<"w", OV5647_SW_STANDBY, 1, 0>> >> ELSE <<>>)
  \o StreamOffWrites

(* C28: a successful __sensor_init (the one of a successful acquire at     *)
(* power_count 0) issues all ops of the selected mode's sequence in table  *)
(* order, then the read of the channel register and the write of the byte  *)
(* read with bits 7:6 cleared (channel 0), then the read of the standby    *)
(* register and, only when bit 0 was read clear, the write of 1 to it,     *)
(* then the three stream-off writes, and nothing after them.               *)
C28_InitOrder ==
  (IsAcquire /\ call.pre = 0 /\ ret >= 0) =>
    \E v \in ReadVals, s \in ReadVals, e \in {0, EREMOTEIO} :
      log = PowerOnPreamble(reset_gpio) \o InitSteps(current_mode, v, s, e)

(* the standby register was read with bit 0 clear and the wake-up write    *)
(* was issued; the channel register was read as 0xff and written as 0x3f   *)
C28_Witness ==
  /\ IsAcquire /\ call.pre = 0 /\ ret >= 0
  /\ current_mode = 4
  /\ log = PowerOnPreamble(reset_gpio) \o InitSteps(4, 255, 0, 0)

(* bit b (given by its mask) of byte x is set *)
BitSet(x, mask) == (x \div mask) % 2 = 1

(* C29: after a successful stream-on the MIPI control register holds a     *)
(* value with the line-sync bit set and the bus-idle bit clear, the        *)
(* frame-off counter is 0 and the pad-disable bit is 0; after a successful *)
(* stream-off the MIPI control register has the clock-lane-gate and the    *)
(* bus-idle bits set.                                                      *)
C29_StreamRegs ==
  /\ (call.op = "s_stream" /\ call.arg # 0 /\ ret >= 0)
       => /\ BitSet(dev[OV5647_REG_MIPI_CTRL00], MIPI_CTRL00_LINE_SYNC_ENABLE)
          /\ ~BitSet(dev[OV5647_REG_MIPI_CTRL00], MIPI_CTRL00_BUS_IDLE)
          /\ dev[OV5647_REG_FRAME_OFF_NUMBER] = 0
          /\ ~BitSet(dev[OV5640_REG_PAD_OUT], 1)
  /\ (call.op = "s_stream" /\ call.arg = 0 /\ ret >= 0)
       => /\ BitSet(dev[OV5647_REG_MIPI_CTRL00], MIPI_CTRL00_CLOCK_LANE_GATE)
          /\ BitSet(dev[OV5647_REG_MIPI_CTRL00], MIPI_CTRL00_BUS_IDLE)

(* C30: a probe whose detect issued the software-reset write and in which  *)
(* no transport operation failed has written 0 to the software-reset       *)
(* register after that write, whether the chip ID matched or not.          *)
C30_ResetCleared ==
  (call.op = "probe" /\ Clean(log))
    => \A i \in 1..Len(log) :
         log[i] = <<"w", OV5647_SW_RESET, 1, 0>>
           => \E j \in (i + 1)..Len(log) : log[j] = <<"w", OV5647_SW_RESET, 0, 0>>

(* C29 (amended): after a successful stream-on the MIPI control register   *)
(* holds 0x14, the line-sync and bus-idle bits set and the clock-lane-gate *)
(* and clock-lane-disable bits clear, the frame-off counter is 0 and the   *)
(* pad-disable bit is 0; after a successful stream-off the MIPI control    *)
(* register has the clock-lane-gate and the bus-idle bits set.             *)
C29_StreamRegsAmended ==
  /\ (call.op = "s_stream" /\ call.arg # 0 /\ ret >= 0)
       => /\ BitSet(dev[OV5647_REG_MIPI_CTRL00], MIPI_CTRL00_LINE_SYNC_ENABLE)
          /\ BitSet(dev[OV5647_REG_MIPI_CTRL00], MIPI_CTRL00_BUS_IDLE)
          /\ ~BitSet(dev[OV5647_REG_MIPI_CTRL00], MIPI_CTRL00_CLOCK_LANE_GATE)
          /\ ~BitSet(dev[OV5647_REG_MIPI_CTRL00], MIPI_CTRL00_CLOCK_LANE_DISABLE)
          /\ dev[OV5647_REG_MIPI_CTRL00] = 20
          /\ dev[OV5647_REG_FRAME_OFF_NUMBER] = 0
          /\ ~BitSet(dev[OV5640_REG_PAD_OUT], 1)
  /\ (call.op = "s_stream" /\ call.arg = 0 /\ ret >= 0)
       => /\ BitSet(dev[OV5647_REG_MIPI_CTRL00], MIPI_CTRL00_CLOCK_LANE_GATE)
          /\ BitSet(dev[OV5647_REG_MIPI_CTRL00], MIPI_CTRL00_BUS_IDLE)

(* a successful stream-off on a powered sensor *)
C29_Witness ==
  /\ call.op = "s_stream" /\ call.arg = 0 /\ ret >= 0
  /\ call.pre = 1
  /\ dev[OV5647_REG_MIPI_CTRL00] = 37
  /\ prev = "stream_on"

(***************************************************************************)
(* One caller configures the active format while another reads it back:    *)
(* caller 1 makes set_fmt calls and keeps the format of its last call      *)
(* until it makes the next one, caller 2 makes get_fmt and get_selection   *)
(* calls.                                                                  *)
(***************************************************************************)
(* the format a set_fmt or get_fmt call leaves in fmt->format for the mode *)
(* at C index mode_index                                                   *)
FormatOf(mode_index) ==
  LET mode == ov5647_modes[mode_index + 1]
  IN  <<mode.width, mode.height, mode.mbus_code>>

(* the mode of the set_fmt result caller u holds, -1 when it holds none *)
SetResult(u) ==
  IF task[u].op = "set_fmt" /\ task[u].pc = "done" THEN task[u].mode ELSE -1

(* caller t calls get_fmt on the active format or get_selection *)
ReadCall(t, op, arg) ==
  /\ registered
  /\ call = NoCall
  /\ task[t].pc = "idle"
  /\ task' = [task EXCEPT ![t] = [NoTask EXCEPT !.pc = "load", !.op = op,
                                                !.arg = arg,
                                                !.at = power_count,
                                                !.since = SetResult(3 - t)]]
  /\ UNCHANGED <<seqvars, lock>>

(* caller t calls set_fmt on the active format: the calls of the other     *)
(* caller that are under way were not made after the latest set_fmt any    *)
(* more                                                                    *)
ConfigCall(t) ==
  /\ registered
  /\ call = NoCall
  /\ task[t].pc = "idle"
  /\ \E req \in ModeRequests :
       task' = [u \in Callers |->
                  IF u = t
                  THEN [NoTask EXCEPT !.pc = "lock", !.op = "set_fmt",
                                      !.arg = req, !.at = power_count]
                  ELSE [task[u] EXCEPT !.since = -1]]
  /\ UNCHANGED <<seqvars, lock>>

GetFmtRead(t) == ReadCall(t, "get_fmt", 0)

GetSelectionRead(t) == \E target \in SelTargets : ReadCall(t, "get_selection", target)

NextView ==
  \/ ConfigCall(1) \/ StoreMode(1)
  \/ GetFmtRead(2) \/ GetSelectionRead(2) \/ LoadMode(2) \/ FillFmt(2)
  \/ \E t \in Callers : MutexLock(t) \/ MutexUnlock(t) \/ Return(t)

SpecView == Init /\ [][NextView]_vars

(* the call of caller t was made after the set_fmt whose result caller u   *)
(* still holds and before any later set_fmt, and has returned              *)
ReadAfterSet(t, u) ==
  /\ task[t].pc = "done"
  /\ task[t].since >= 0
  /\ SetResult(u) = task[t].since

(* C31: a get_fmt made after a set_fmt on the active format returned, and  *)
(* before the next set_fmt, returns the width, height and code that        *)
(* set_fmt returned; get_selection(CROP) then returns the rectangle at     *)
(* (0, 0) of that width and height; get_selection(NATIVE_SIZE) returns     *)
(* 2624x1956 in every mode.                                                *)
C31_ReadBack ==
  \A t \in Callers :
    /\ (task[t].op = "get_fmt" /\ ReadAfterSet(t, 3 - t))
         => /\ task[t].ret = 0
            /\ FormatOf(task[t].mode) = FormatOf(task[t].since)
    /\ (task[t].op = "get_selection" /\ task[t].arg = V4L2_SEL_TGT_CROP
        /\ ReadAfterSet(t, 3 - t))
         => LET r == ov5647_get_selection(task[t].mode, task[t].arg)
            IN  /\ task[t].ret = 0 /\ r.ret = 0
                /\ r.left = 0 /\ r.top = 0
                /\ r.width = FormatOf(task[t].since)[1]
                /\ r.height = FormatOf(task[t].since)[2]
    /\ (task[t].op = "get_selection" /\ task[t].arg = V4L2_SEL_TGT_NATIVE_SIZE
        /\ task[t].pc = "done")
         => LET r == ov5647_get_selection(task[t].mode, task[t].arg)
            IN  /\ task[t].ret = 0 /\ r.ret = 0
                /\ r.left = 0 /\ r.top = 0
                /\ r.width = 2624 /\ r.height = 1956

(* get_selection(CROP) has returned after a set_fmt that selected 1080p *)
C31_Witness ==
  /\ task[2].op = "get_selection" /\ task[2].arg = V4L2_SEL_TGT_CROP
  /\ ReadAfterSet(2, 1)
  /\ task[2].since = 3
  /\ current_mode = 3

(* C32: when an acquire returns success the device is powered: the clock   *)
(* is enabled and power_count is at least 1, whatever acquires and         *)
(* releases came before.                                                   *)
C32_AcquiredIsPowered ==
  (call.op = "s_power" /\ call.arg # 0 /\ ret >= 0)
    => (xclk >= 1 /\ power_count >= 1)

(* some request makes set_fmt on the active format select the mode at C    *)
(* index i                                                                 *)
Selectable(i) ==
  \E req \in SelRequests \cup ModeRequests :
    find_best_mode(req[1], req[2], req[3]) = i

(* C33: every entry of the mode table is selectable: whatever the current  *)
(* mode is, each other index of ov5647_modes can become the current mode   *)
(* by some set_fmt request on the active format.                           *)
C33_EverySelectable ==
  \A i \in 0..(OV5647_NUM_MODES - 1) : current_mode # i => Selectable(i)

(* C34: after a successful acquire at power_count 0 the three              *)
(* output-enable registers hold the values of sensor_oe_enable_regs: the   *)
(* last completed write of the call to each of them is the enable value.   *)
C34_OutputEnabled ==
  (call.op = "s_power" /\ call.arg # 0 /\ call.pre = 0 /\ ret >= 0)
    => \A i \in 1..Len(sensor_oe_enable_regs) :
         LastWritten(log, sensor_oe_enable_regs[i][1], NONE)
           = sensor_oe_enable_regs[i][2]

(***************************************************************************)
(* The device lock over all entry points that take it: caller 1 makes      *)
(* s_power calls, caller 2 set_fmt and get_fmt calls on the active and on  *)
(* the try format.                                                         *)
(***************************************************************************)
ENOTTY == -25

(* requests of caller 2: the 640x480 and the 1920x1080 catalog sizes *)
LockRequests ==
  {<<U32(ov5647_modes[i].width), U32(ov5647_modes[i].height),
     ov5647_modes[i].mbus_code>> : i \in {1, 5}}

SetFmtLockCall(t) == \E req \in LockRequests : Enter(t, "set_fmt", req, "lock")

(* caller t calls set_fmt with fmt->which == V4L2_SUBDEV_FORMAT_TRY *)
TrySetFmtCall(t) ==
  /\ registered
  /\ call = NoCall
  /\ task[t].pc = "idle"
  /\ \E req \in LockRequests :
       task' = [task EXCEPT ![t] = [NoTask EXCEPT
                                      !.pc = "lock", !.op = "set_fmt",
                                      !.arg = req, !.at = power_count,
                                      !.which = V4L2_SUBDEV_FORMAT_TRY]]
  /\ UNCHANGED <<seqvars, lock>>

(* caller t calls get_fmt with fmt->which == V4L2_SUBDEV_FORMAT_TRY *)
TryGetFmtCall(t) ==
  /\ registered
  /\ call = NoCall
  /\ task[t].pc = "idle"
  /\ task' = [task EXCEPT ![t] = [NoTask EXCEPT
                                    !.pc = "load", !.op = "get_fmt",
                                    !.at = power_count,
                                    !.which = V4L2_SUBDEV_FORMAT_TRY]]
  /\ UNCHANGED <<seqvars, lock>>

(* set_fmt under the lock on the try format: the selected format goes to   *)
(* the pad configuration of the caller (or nowhere, without                *)
(* CONFIG_VIDEO_V4L2_SUBDEV_API); struct ov5647 is not written             *)
TryStore(t) ==
  /\ task[t].pc = "body"
  /\ task[t].op = "set_fmt"
  /\ task[t].which = V4L2_SUBDEV_FORMAT_TRY
  /\ LET req == task[t].arg
     IN  task' = [task EXCEPT ![t].pc = "unlock", ![t].ret = 0,
                              ![t].mode = find_best_mode(req[1], req[2], req[3])]
  /\ UNCHANGED <<seqvars, lock>>

(* get_fmt under the lock on the try format: the try format of the pad     *)
(* configuration is returned, or -ENOTTY by a build without                *)
(* CONFIG_VIDEO_V4L2_SUBDEV_API                                            *)
TryFill(t) ==
  /\ task[t].pc = "body"
  /\ task[t].op = "get_fmt"
  /\ task[t].which = V4L2_SUBDEV_FORMAT_TRY
  /\ \E r \in {0, ENOTTY} :
       task' = [task EXCEPT ![t].pc = "unlock", ![t].ret = r]
  /\ UNCHANGED <<seqvars, lock>>

NextLock ==
  \/ Call(1, 1) \/ Call(1, 0) \/ Branch(1) \/ Emit(1) \/ Update(1)
  \/ SetFmtLockCall(2) \/ GetFmtCall(2) \/ TrySetFmtCall(2) \/ TryGetFmtCall(2)
  \/ LoadMode(2) \/ StoreMode(2) \/ FillFmt(2) \/ TryStore(2) \/ TryFill(2)
  \/ \E t \in Callers : MutexLock(t) \/ MutexUnlock(t) \/ Return(t)

SpecLock == Init /\ [][NextLock]_vars

(* the next statement of caller t between mutex_lock and mutex_unlock *)
BodyStep(t) ==
  \/ Branch(t) \/ Emit(t) \/ Update(t)
  \/ StoreMode(t) \/ FillFmt(t) \/ TryStore(t) \/ TryFill(t)
  \/ MutexUnlock(t)

(* C35: the lock is held only by a caller that is between the mutex_lock   *)
(* and the mutex_unlock of a call in progress, and that caller can always  *)
(* take its next step towards mutex_unlock: a call that has returned, with *)
(* success or with an error, does not hold the lock, and the lock is free  *)
(* when no call is in progress.                                            *)
C35_LockReleased ==
  /\ lock # 0 => (InBody(lock) /\ \E t \in Callers : t = lock /\ ENABLED BodyStep(t))
  /\ \A t \in Callers : task[t].pc \in {"idle", "load", "lock", "done"} => lock # t
  /\ (\A t \in Callers : task[t].pc \in {"idle", "done"}) => lock = 0

(* a failed power-on has returned its error and a get_fmt on the try       *)
(* format has returned -ENOTTY; the lock is free                           *)
C35_Witness ==
  /\ task[1].op = "s_power" /\ task[1].on # 0 /\ task[1].pc = "done"
  /\ task[1].kind = "partial" /\ task[1].ret < 0
  /\ task[2].op = "get_fmt" /\ task[2].pc = "done" /\ task[2].ret = ENOTTY
  /\ lock = 0

(***************************************************************************)
(* set_fmt on the try format next to the life cycle of the device.         *)
(***************************************************************************)
SetFmtTry_storing ==
  /\ call = NoCall
  /\ registered
  /\ \E req \in ModeRequests :
       LET best_mode == find_best_mode(req[1], req[2], req[3])
       IN  /\ current_mode' = best_mode
           /\ call' = [op |-> "set_fmt_try", arg |-> req, pre |-> power_count]
  /\ log' = <<>>
  /\ ret' = 0
  /\ run' = NoRun
  /\ UNCHANGED <<power_count, width, height, xclk, reset_gpio, dev, prev,
                 registered, runtime_status, lock, task>>

(* set_fmt with fmt->which == V4L2_SUBDEV_FORMAT_TRY: the selected format  *)
(* is returned in fmt->format and stored in the pad configuration of the   *)
(* caller, struct ov5647 is not written                                    *)
SetFmtTry ==
  /\ call = NoCall
  /\ registered
  /\ \E req \in ModeRequests :
       call' = [op |-> "set_fmt_try", arg |-> req, pre |-> power_count]
  /\ log' = <<>>
  /\ ret' = 0
  /\ run' = NoRun
  /\ UNCHANGED <<power_count, current_mode, width, height, xclk, reset_gpio,
                 dev, prev, registered, runtime_status, lock, task>>

NextTry == Acquire \/ Release \/ SetFmtMode \/ SetFmtTry \/ Idle

SpecTry == InitApply /\ [][NextTry]_vars

(* C36: a set_fmt on the try format leaves current_mode, width, height,    *)
(* power_count and the sensor registers as they were; a set_fmt on the     *)
(* active format changes only current_mode, width and height; neither      *)
(* issues a register read or write.                                        *)
C36_SetFmtFrame ==
  [][/\ (call.op = "none" /\ call'.op = "set_fmt_try")
          => /\ UNCHANGED <<current_mode, width, height, power_count, dev,
                            xclk, reset_gpio>>
             /\ log' = <<>>
     /\ (call.op = "none" /\ call'.op = "set_fmt")
          => /\ UNCHANGED <<power_count, dev, xclk, reset_gpio>>
             /\ log' = <<>>
             /\ LET req == call'.arg
                    m == ov5647_modes[find_best_mode(req[1], req[2], req[3]) + 1]
                IN  /\ current_mode' = find_best_mode(req[1], req[2], req[3])
                    /\ width' = m.width /\ height' = m.height]_vars

(* a set_fmt on the try format for 1920x1080 has returned on a powered     *)
(* sensor whose current mode is 640x480                                    *)
C36_Witness ==
  /\ call.op = "set_fmt_try"
  /\ find_best_mode(call.arg[1], call.arg[2], call.arg[3]) = 4
  /\ current_mode = 0
  /\ power_count = 1
  /\ dev[OV5647_SW_STANDBY] = 1

(* ov5647_enum_mbus_code for code->index == index *)
ov5647_enum_mbus_code(index) ==
  IF index = 0 THEN [ret |-> 0, code |-> MEDIA_BUS_FMT_SBGGR8_1X8]
  ELSE IF index = 1 THEN [ret |-> 0, code |-> MEDIA_BUS_FMT_SBGGR10_1X10]
  ELSE [ret |-> EINVAL, code |-> NONE]

(* the format codes the enumeration of codes reports *)
SupportedCodes ==
  {ov5647_enum_mbus_code(i).code :
     i \in {j \in EnumIndices : ov5647_enum_mbus_code(j).ret = 0}}

(* the first index at which the enumeration of the sizes of code fails *)
FirstError(code) ==
  CHOOSE i \in EnumIndices :
    /\ ov5647_enum_frame_size(EnumRequest(i, code)).ret # 0
    /\ \A j \in 0..(i - 1) : ov5647_enum_frame_size(EnumRequest(j, code)).ret = 0

(* the sizes a caller is given that enumerates code from index 0 up to the *)
(* first error                                                             *)
Enumerated(code) ==
  {LET r == ov5647_enum_frame_size(EnumRequest(j, code))
   IN  <<r.fse.max_width, r.fse.max_height>> : j \in 0..(FirstError(code) - 1)}

(* C37: when the enumeration of the frame sizes of a supported format code *)
(* stops at its first failing index, the caller has been given every size  *)
(* the mode table holds for that code.                                     *)
C37_EnumComplete ==
  (/\ call.op = "enum_frame_size" /\ ret # 0
   /\ call.arg.code \in SupportedCodes
   /\ call.arg.index = FirstError(call.arg.code))
    => \A i \in 1..OV5647_NUM_MODES :
         ov5647_modes[i].mbus_code = call.arg.code
           => <<ov5647_modes[i].width, ov5647_modes[i].height>>
                \in Enumerated(call.arg.code)

(***************************************************************************)
(* Life cycle of the bound device: probe, the runtime PM callbacks, s_power *)
(* and remove.  xclk is the number of clk_prepare_enable calls that        *)
(* succeeded minus the number of clk_disable_unprepare calls.              *)
(***************************************************************************)
(* a device is probed again while the clock count is within MaxClockSkew   *)
(* of zero                                                                 *)
MaxClockSkew == 1

Attach ==
  /\ xclk >= -MaxClockSkew
  /\ xclk <= MaxClockSkew
  /\ Probe

(* the frame of a life-cycle callback with final context d *)
PmDone(d, op) ==
  /\ xclk' = d.xclk
  /\ reset_gpio' = d.reset
  /\ log' = d.log
  /\ ret' = d.ret
  /\ dev' = DevAfter(dev, d.log)
  /\ call' = [op |-> op, arg |-> 0, pre |-> power_count]
  /\ run' = NoRun
  /\ UNCHANGED <<power_count, current_mode, width, height, prev, lock, task>>

(* ov5647_runtime_resume, called by the PM core for a suspended device; a  *)
(* failed resume leaves the device suspended                               *)
RuntimeResume ==
  /\ call = NoCall
  /\ registered
  /\ runtime_status = RPM_SUSPENDED
  /\ \E d \in ov5647_power_on(NewCtx(xclk, reset_gpio)) :
       /\ PmDone(d, "runtime_resume")
       /\ runtime_status' = IF d.ret < 0 THEN RPM_SUSPENDED ELSE RPM_ACTIVE
  /\ UNCHANGED registered

(* ov5647_runtime_suspend, called by the PM core for an active device *)
RuntimeSuspend ==
  /\ call = NoCall
  /\ registered
  /\ runtime_status = RPM_ACTIVE
  /\ PmDone([ov5647_power_off(NewCtx(xclk, reset_gpio)) EXCEPT !.ret = 0],
            "runtime_suspend")
  /\ runtime_status' = RPM_SUSPENDED
  /\ UNCHANGED registered

(* ov5647_remove: pm_runtime_disable, the unregistrations, then            *)
(* __ov5647_power_off whatever the runtime PM status is                    *)
ov5647_remove(c) == [ov5647_power_off(c) EXCEPT !.ret = 0]

Remove ==
  /\ call = NoCall
  /\ registered
  /\ PmDone(ov5647_remove(NewCtx(xclk, reset_gpio)), "remove")
  /\ registered' = FALSE
  /\ UNCHANGED runtime_status

NextPm ==
  Attach \/ RuntimeResume \/ RuntimeSuspend \/ Acquire \/ Release \/ Remove \/ Idle

SpecPm == InitProbe /\ [][NextPm]_vars

(* C38: the clock is never disabled more often than it was enabled: the    *)
(* count of clk_prepare_enable calls minus clk_disable_unprepare calls     *)
(* never drops below zero, over probe, runtime suspend and resume,         *)
(* s_power and remove.                                                     *)
C38_ClockBalanced == xclk >= 0

(***************************************************************************)
(* Concurrent applications of the AUTOGAIN and EXPOSURE_AUTO controls on a *)
(* powered sensor, next to a release by caller 1.  Both controls are a     *)
(* read-modify-write of OV5647_REG_AEC_AGC; the register holds what was    *)
(* last written to it and a read that completes delivers that value.  The  *)
(* control framework calls s_ctrl with handler->lock, the device lock,     *)
(* held.  Caller 1 applies AUTOGAIN, caller 2 EXPOSURE_AUTO.               *)
(***************************************************************************)
BitsCtrlInputs(t) ==
  IF t = 1
  THEN {<<V4L2_CID_AUTOGAIN, 0>>, <<V4L2_CID_AUTOGAIN, 1>>}
  ELSE {<<V4L2_CID_EXPOSURE_AUTO, V4L2_EXPOSURE_AUTO>>,
        <<V4L2_CID_EXPOSURE_AUTO, V4L2_EXPOSURE_MANUAL>>}

(* the sensor is powered in mode 0 and idle; the mode sequence has written *)
(* OV5647_REG_AEC_AGC                                                      *)
InitBits ==
  /\ power_count = 1
  /\ current_mode = 0
  /\ width = 0
  /\ height = 0
  /\ xclk = 1
  /\ reset_gpio \in {0, GPIO_ABSENT}
  /\ dev = DevAfter([a \in Tracked \cup {OV5647_REG_AEC_AGC} |-> NONE],
                    Writes(ov5647_modes[1].reg_list) \o StreamOffWrites)
  /\ log = <<>>
  /\ ret = 0
  /\ call = NoCall
  /\ run = NoRun
  /\ prev = "other"
  /\ registered = TRUE
  /\ runtime_status = RPM_SUSPENDED
  /\ lock = 0
  /\ task = [t \in Callers |-> NoTask]

BitsCall(t) == \E in \in BitsCtrlInputs(t) : Enter(t, "s_ctrl", in, "lock")

(* if (sensor->power_count == 0) return 0; otherwise the switch goes to    *)
(* the read of OV5647_REG_AEC_AGC                                          *)
CtrlCheck(t) ==
  /\ task[t].pc = "body"
  /\ task[t].op = "s_ctrl"
  /\ task' = [task EXCEPT
                ![t].pc = IF ctrl_skipped(power_count) THEN "unlock" ELSE "read",
                ![t].at = power_count,
                ![t].ret = 0,
                ![t].seen = <<Phase(t)>>]
  /\ UNCHANGED <<seqvars, lock>>

(* ret = ov5647_read(sd, OV5647_REG_AEC_AGC, &reg); a failed read ends the *)
(* call                                                                    *)
CtrlRead(t) ==
  /\ task[t].pc = "read"
  /\ \/ task' = [task EXCEPT ![t].pc = "write",
                             ![t].reg = dev[OV5647_REG_AEC_AGC],
                             ![t].ret = I2C_READ_LEN,
                             ![t].seen = Append(@, Phase(t))]
     \/ task' = [task EXCEPT ![t].pc = "unlock",
                             ![t].ret = EREMOTEIO,
                             ![t].seen = Append(@, Phase(t))]
  /\ UNCHANGED <<seqvars, lock>>

(* ret = ov5647_write(sd, OV5647_REG_AEC_AGC, reg) with the bit of the     *)
(* control set or cleared in reg, then return ret < 0 ? ret : 0            *)
CtrlWrite(t) ==
  /\ task[t].pc = "write"
  /\ LET val == IF task[t].arg[1] = V4L2_CID_AUTOGAIN
                THEN agc_bits(task[t].reg, task[t].arg[2])
                ELSE aec_bits(task[t].reg, task[t].arg[2])
     IN  \/ /\ dev' = [dev EXCEPT ![OV5647_REG_AEC_AGC] = val]
            /\ task' = [task EXCEPT ![t].pc = "unlock",
                                    ![t].ret = 0,
                                    ![t].kind = "written",
                                    ![t].seen = Append(@, Phase(t))]
         \/ /\ dev' = dev
            /\ task' = [task EXCEPT ![t].pc = "unlock",
                                    ![t].ret = EIO,
                                    ![t].seen = Append(@, Phase(t))]
  /\ UNCHANGED <<power_count, current_mode, width, height, xclk, reset_gpio,
                 log, ret, call, run, prev, registered, runtime_status, lock>>

NextBits ==
  \/ Call(1, 0) \/ Branch(1) \/ Emit(1) \/ Update(1)
  \/ \E t \in Callers :
       \/ BitsCall(t) \/ MutexLock(t) \/ CtrlCheck(t) \/ CtrlRead(t)
       \/ CtrlWrite(t) \/ MutexUnlock(t) \/ Return(t)

SpecBits == InitBits /\ [][NextBits]_vars

(* caller t is between the lock and the unlock of handler->lock or of the  *)
(* device lock                                                             *)
Locked(t) == task[t].pc \in {"body", "emit", "read", "write", "unlock"}

(* the control application of caller t has written its bit and returned *)
Applied(t, cid) ==
  /\ task[t].op = "s_ctrl" /\ task[t].arg[1] = cid
  /\ task[t].pc = "done" /\ task[t].kind = "written"

(* C39: concurrent control applications run one at a time under the       *)
(* device lock, their register operations are not interleaved; after the   *)
(* latest AUTOGAIN and the latest EXPOSURE_AUTO application, which may     *)
(* have overlapped, the AEC/AGC register holds both bit updates; the power *)
(* state of the sensor is the same at the power check of a control         *)
(* application and at each of its register operations.                     *)
C39_CtrlSerialized ==
  /\ \A t \in Callers : Locked(t) => lock = t
  /\ \A t, u \in Callers :
       (task[t].pc \in {"read", "write"} /\ task[u].pc \in {"read", "write", "emit"})
         => t = u
  /\ \A t \in Callers :
       task[t].op = "s_ctrl"
         => \A i \in 1..Len(task[t].seen) : task[t].seen[i] = task[t].seen[1]
  /\ \A t \in Callers :
       (Applied(t, V4L2_CID_AUTOGAIN) /\ Applied(3 - t, V4L2_CID_EXPOSURE_AUTO))
         => /\ BitSet(dev[OV5647_REG_AEC_AGC], OV5647_AGC_ENABLE)
                 = (task[t].arg[2] = 0)
            /\ BitSet(dev[OV5647_REG_AEC_AGC], OV5647_AEC_ENABLE)
                 = (task[3 - t].arg[2] # V4L2_EXPOSURE_AUTO)

(* manual gain and manual exposure have both been applied: the register    *)
(* holds both enable bits                                                  *)
C39_Witness ==
  /\ Applied(1, V4L2_CID_AUTOGAIN) /\ task[1].arg[2] = 0
  /\ Applied(2, V4L2_CID_EXPOSURE_AUTO) /\ task[2].arg[2] = V4L2_EXPOSURE_MANUAL
  /\ dev[OV5647_REG_AEC_AGC] = 3
  /\ task[2].reg = 2
=============================================================================
